--------------------------- MODULE Spec2Model ---------------------------
(***************************************************************************)
(* On-call schedule converter: the expectation tracker, the identifier     *)
(* resolver, the week-day classification and the Radiology and Cardiology  *)
(* extraction loops, as state machines over the tracker's state.           *)
(*                                                                         *)
(* Text that the program inspects character by character (cell values,     *)
(* initials, names) is a sequence of one-character strings; the empty      *)
(* sequence stands for both None and '' (the program tests them with       *)
(* "if not x" only).  Opaque values (employee identifiers, team names,     *)
(* times of day such as "1530", role codes) are TLA+ strings.              *)
(***************************************************************************)
EXTENDS Integers, Sequences, FiniteSets, TLC

VARIABLES
  expected_entries,   \* DebugTracker.expected_entries (list of dicts)
  unknown_names,      \* DebugTracker.unknown_names (set)
  unknown_initials,   \* DebugTracker.unknown_initials (set)
  output_data,        \* the record list an extraction builds
  workbooks,          \* what an extraction reads: worksheets, reader results
  run,                \* the extraction run: department, month, loop position
  call,               \* the last direct call made on the tracker or resolver
  log,                \* every direct call made so far, in order
  date,               \* the date is_weekday is applied to
  dow,                \* the day of the week of date, counted from a known day
  weekday_flag        \* what is_weekday returned for date

vars == <<expected_entries, unknown_names, unknown_initials, output_data,
          workbooks, run, call, log, date, dow, weekday_flag>>

trackerVars == <<expected_entries, unknown_names, unknown_initials>>
calendarVars == <<date, dow, weekday_flag>>

-----------------------------------------------------------------------------
(* Text primitives: Python's str methods on sequences of characters.       *)

None == "None"

UpperLetters ==
  <<"A","B","C","D","E","F","G","H","I","J","K","L","M",
    "N","O","P","Q","R","S","T","U","V","W","X","Y","Z">>

LowerLetters ==
  <<"a","b","c","d","e","f","g","h","i","j","k","l","m",
    "n","o","p","q","r","s","t","u","v","w","x","y","z">>

UpperSet == {UpperLetters[i] : i \in DOMAIN UpperLetters}
LowerSet == {LowerLetters[i] : i \in DOMAIN LowerLetters}
Whitespace == {" ", "\n", "\t"}

\* the upper-case letter of each lower-case letter, and the reverse
ToUpper == [c \in LowerSet |-> UpperLetters[CHOOSE i \in 1..26 : LowerLetters[i] = c]]
ToLower == [c \in UpperSet |-> LowerLetters[CHOOSE i \in 1..26 : UpperLetters[i] = c]]

UpperChar(c) == IF c \in LowerSet THEN ToUpper[c] ELSE c
LowerChar(c) == IF c \in UpperSet THEN ToLower[c] ELSE c

\* str.upper(), str.lower()
Upper(s) == [i \in DOMAIN s |-> UpperChar(s[i])]
Lower(s) == [i \in DOMAIN s |-> LowerChar(s[i])]

\* str.isupper(): at least one cased character and no lower-case one
IsUpper(s) ==
  /\ \E i \in DOMAIN s : s[i] \in UpperSet
  /\ \A i \in DOMAIN s : s[i] \notin LowerSet

\* str.strip(): surrounding whitespace removed
Strip(s) ==
  LET keep == {i \in DOMAIN s : s[i] \notin Whitespace}
  IN IF keep = {} THEN <<>>
     ELSE LET lo == CHOOSE i \in keep : \A j \in keep : i <= j
              hi == CHOOSE i \in keep : \A j \in keep : i >= j
          IN SubSeq(s, lo, hi)

\* old in s (substring test)
Contains(s, old) ==
  \E i \in 0..(Len(s) - Len(old)) : SubSeq(s, i + 1, i + Len(old)) = old

RECURSIVE Replace(_, _, _)
\* str.replace(old, new) for a non-empty old: left to right, non-overlapping
Replace(s, old, new) ==
  IF Len(s) < Len(old) THEN s
  ELSE IF SubSeq(s, 1, Len(old)) = old
       THEN new \o Replace(SubSeq(s, Len(old) + 1, Len(s)), old, new)
       ELSE <<s[1]>> \o Replace(SubSeq(s, 2, Len(s)), old, new)

RECURSIVE Split(_, _)
\* str.split(sep) for a one-character sep: the list of fields
Split(s, sep) ==
  LET hits == {i \in DOMAIN s : s[i] = sep}
  IN IF hits = {} THEN <<s>>
     ELSE LET i == CHOOSE k \in hits : \A j \in hits : k <= j
          IN <<SubSeq(s, 1, i - 1)>> \o Split(SubSeq(s, i + 1, Len(s)), sep)

-----------------------------------------------------------------------------
(* The employee directory (Converter.py, EMPLOYEE_MAP), in insertion order. *)

EMPLOYEE_MAP ==
  <<
    [id |-> "allwo0f", emp_initials |-> <<"A","K">>, emp_roles |-> <<"1056">>,
     emp_name |-> <<"D","r","."," ","A","l","l","i","s","o","n"," ","L","i","v","i","n","g","s","t","o","n">>,
     department |-> "Radiology"],
    [id |-> "audr95t", emp_initials |-> <<"A","O">>, emp_roles |-> <<"1056">>,
     emp_name |-> <<"D","r","."," ","A","u","d","r","e","y"," ","R","a","n","d","y">>,
     department |-> "Radiology"],
    [id |-> "ellias4", emp_initials |-> <<"A","S">>, emp_roles |-> <<"1056">>,
     emp_name |-> <<"D","r","."," ","A","n","k","u","r"," ","S","i","m","r","a","n"," ","E","l","l","i","s","o","n">>,
     department |-> "Radiology"],
    [id |-> "lotta3", emp_initials |-> <<"A","T">>, emp_roles |-> <<"1056">>,
     emp_name |-> <<"D","r","."," ","A","n","g","e","l","a"," ","L","o","t","t","i">>,
     department |-> "Radiology"],
    [id |-> "figeftr", emp_initials |-> <<"F","T">>, emp_roles |-> <<"1056">>,
     emp_name |-> <<"D","r","."," ","F","e","r","n","a","n","d","o"," ","F","i","g","e","r">>,
     department |-> "Radiology"],
    [id |-> "hauser4", emp_initials |-> <<"I","G">>, emp_roles |-> <<"1056">>,
     emp_name |-> <<"D","r","."," ","I","r","v","i","n"," ","G","a","r","r","e","t","t"," ","H","a","u","s","e","r">>,
     department |-> "Radiology"],
    [id |-> "kaisbam", emp_initials |-> <<"L","K">>, emp_roles |-> <<"1056">>,
     emp_name |-> <<"D","r","."," ","B","a","r","r","y"," ","M","i","d","l","a","n","d"," ","K","a","i","s","e","r">>,
     department |-> "Radiology"],
    [id |-> "bellam5", emp_initials |-> <<"M","B">>, emp_roles |-> <<"1056">>,
     emp_name |-> <<"D","r","."," ","M","o","n","i","c","a"," ","B","e","l","l","a">>,
     department |-> "Radiology"],
    [id |-> "chengme", emp_initials |-> <<"M","C">>, emp_roles |-> <<"1056">>,
     emp_name |-> <<"D","r","."," ","M","i","l","k","h","a"," ","C","h","e","n","g","i">>,
     department |-> "Radiology"],
    [id |-> "fakma0e", emp_initials |-> <<"M","F">>, emp_roles |-> <<"1056">>,
     emp_name |-> <<"D","r","."," ","M","a","r","i","a"," ","N","a","r","g","i","s">>,
     department |-> "Radiology"],
    [id |-> "mumir4", emp_initials |-> <<"M","M">>, emp_roles |-> <<"1056">>,
     emp_name |-> <<"D","r","."," ","M","i","r"," ","M","i","r","a","n","d","a">>,
     department |-> "Radiology"],
    [id |-> "nilanin", emp_initials |-> <<"N","N">>, emp_roles |-> <<"1056">>,
     emp_name |-> <<"D","r","."," ","N","a","y","a","n"," ","N","i","l","a","n","i">>,
     department |-> "Radiology"],
    [id |-> "hernapat", emp_initials |-> <<"P","R">>, emp_roles |-> <<"1056">>,
     emp_name |-> <<"D","r","."," ","P","a","u","l"," ","H","e","r","n","a","n","d","e","z">>,
     department |-> "Radiology"],
    [id |-> "gonzsa2", emp_initials |-> <<"S","G">>, emp_roles |-> <<"1056">>,
     emp_name |-> <<"D","r","."," ","G","o","n","z","a","l","e","s",","," ","S","a","l","e","m">>,
     department |-> "Radiology"],
    [id |-> "alitar3b", emp_initials |-> <<"T","A">>, emp_roles |-> <<"1056">>,
     emp_name |-> <<"D","r","."," ","T","a","r","z","a","n"," ","A","l","i">>,
     department |-> "Radiology"],
    [id |-> "ignaro5w", emp_initials |-> <<"R","I">>, emp_roles |-> <<"1056">>,
     emp_name |-> <<"D","r","."," ","R","o","b","e","r","t","a"," ","I","g","n","a","t","i","u","s">>,
     department |-> "Radiology"],
    [id |-> "qulfi6e", emp_initials |-> <<"Q">>, emp_roles |-> <<"3042457">>,
     emp_name |-> <<"Q","u","r","e","s","h","i">>,
     department |-> "Cardiology"],
    [id |-> "salam0c", emp_initials |-> <<"S">>, emp_roles |-> <<"3042457">>,
     emp_name |-> <<"S","a","l","a","m","i">>,
     department |-> "Cardiology"],
    [id |-> "mehndo4e", emp_initials |-> <<"M">>, emp_roles |-> <<"3042457">>,
     emp_name |-> <<"M","."," ","E","n","a","d","i">>,
     department |-> "Cardiology"],
    [id |-> "lipar45", emp_initials |-> <<"L">>, emp_roles |-> <<"3042457">>,
     emp_name |-> <<"L","."," ","P","a","r","i","v","a","r">>,
     department |-> "Cardiology"],
    [id |-> "alsind34", emp_initials |-> <<"A","S">>, emp_roles |-> <<"3042457">>,
     emp_name |-> <<"L","e"," ","S","i","n","d","a","p","u","r">>,
     department |-> "Cardiology"],
    [id |-> "formi57r", emp_initials |-> <<"F","9","9">>, emp_roles |-> <<"3042457">>,
     emp_name |-> <<"F","o","x"," ","M","a","c","h","a","r">>,
     department |-> "Cardiology"],
    [id |-> "purita5", emp_initials |-> <<"P","9","9">>, emp_roles |-> <<"72">>,
     emp_name |-> <<"P"," ","B","h","a","j","r","a">>,
     department |-> "Cardiology"],
    [id |-> "konasje", emp_initials |-> <<"K","9","9">>, emp_roles |-> <<"72">>,
     emp_name |-> <<"K","o","n","s","a">>,
     department |-> "Cardiology"],
    [id |-> "bhenjt4", emp_initials |-> <<"B","9","9">>, emp_roles |-> <<"72">>,
     emp_name |-> <<"B","e","n"," ","J","i">>,
     department |-> "Cardiology"],
    [id |-> "maskirt3", emp_initials |-> <<"Q","9","9">>, emp_roles |-> <<"72">>,
     emp_name |-> <<"M","e","s","q","u","i","t","a"," ","N">>,
     department |-> "Cardiology"],
    [id |-> "vahard3g", emp_initials |-> <<"V","9","9">>, emp_roles |-> <<"72">>,
     emp_name |-> <<"V","a","h","a"," ","R","o","b","e","r","t">>,
     department |-> "Cardiology"],
    [id |-> "lukolnd", emp_initials |-> <<"L","9","9">>, emp_roles |-> <<"72">>,
     emp_name |-> <<"L","u"," ","K","."," ","O","l","n","a">>,
     department |-> "Cardiology"],
    [id |-> "sponset5", emp_initials |-> <<"S","9","9">>, emp_roles |-> <<"72">>,
     emp_name |-> <<"S","p"," ","F"," ","S","e","d">>,
     department |-> "Cardiology"],
    [id |-> "tamasho", emp_initials |-> <<"T","9","9">>, emp_roles |-> <<"72">>,
     emp_name |-> <<"T","a","m","h","a","n","e">>,
     department |-> "Cardiology"],
    [id |-> "fouza64w", emp_initials |-> <<"F","9","9","2">>, emp_roles |-> <<"47">>,
     emp_name |-> <<"F"," ","O","u","z","a"," ","W","i","k">>,
     department |-> "Cardiology"],
    [id |-> "dosa0b", emp_initials |-> <<"A","G">>, emp_roles |-> <<"2001">>,
     emp_name |-> <<"A","n","i","t","a"," ","G","u","n","d","a">>,
     department |-> "Cardiology"],
    [id |-> "ghas4g", emp_initials |-> <<"G","S">>, emp_roles |-> <<"84","2001">>,
     emp_name |-> <<"G","h","a","i","t","a","n","i"," ","S">>,
     department |-> "Cardiology"],
    [id |-> "abherq", emp_initials |-> <<"A","E">>, emp_roles |-> <<"84">>,
     emp_name |-> <<"A","b","e"," ","E"," ","M">>,
     department |-> "Cardiology"],
    [id |-> "villfh", emp_initials |-> <<"V","L">>, emp_roles |-> <<"84">>,
     emp_name |-> <<"V","i","l","l","a","g","e"," ","L","o","m","b","a">>,
     department |-> "Cardiology"]
  >>

Employees == DOMAIN EMPLOYEE_MAP

\* {v['emp_initials']: k for k, v in employee_map.items()}: the keys, and
\* for a key the identifier of the LAST employee holding it
InitialsKeys == {EMPLOYEE_MAP[i].emp_initials : i \in Employees}

INITIALS_TO_USERNAME(initials) ==
  LET holders == {i \in Employees : EMPLOYEE_MAP[i].emp_initials = initials}
  IN EMPLOYEE_MAP[CHOOSE i \in holders : \A j \in holders : i >= j].id

\* {v['emp_name']: k for k, v in employee_map.items()}
NameKeys == {EMPLOYEE_MAP[i].emp_name : i \in Employees}

NAME_TO_USERNAME(name) ==
  LET holders == {i \in Employees : EMPLOYEE_MAP[i].emp_name = name}
  IN EMPLOYEE_MAP[CHOOSE i \in holders : \A j \in holders : i >= j].id

\* self.employee_map[username]['emp_roles'][0], or the default role '72'
get_employee_role(username) ==
  LET holders == {i \in Employees : EMPLOYEE_MAP[i].id = username}
  IN IF holders = {} THEN "72"
     ELSE EMPLOYEE_MAP[CHOOSE i \in holders : TRUE].emp_roles[1]

-----------------------------------------------------------------------------
(* DebugTracker (Converter.py).  Each operator takes the list it acts on   *)
(* and returns the list after the call.                                    *)

SameKey(entry, team_name, day, start_time, end_time) ==
  /\ entry.team = team_name
  /\ entry.day = day
  /\ entry.start_time = start_time
  /\ entry.end_time = end_time

\* a registration that skips a key already registered
add_expected_entry_dedup(entries, team_name, day, start_time, end_time, source, employee) ==
  IF \E i \in DOMAIN entries : SameKey(entries[i], team_name, day, start_time, end_time)
  THEN entries
  ELSE Append(entries, [team |-> team_name, day |-> day, start_time |-> start_time,
                        end_time |-> end_time, source |-> source,
                        employee |-> employee, generated |-> FALSE])

add_expected_entry(entries, team_name, day, start_time, end_time, source, employee) ==
  Append(entries, [team |-> team_name, day |-> day, start_time |-> start_time,
                   end_time |-> end_time, source |-> source,
                   employee |-> employee, generated |-> FALSE])

\* the loop without its break: every matching entry is flagged
mark_entry_generated_all(entries, team_name, day, start_time, end_time) ==
  [i \in DOMAIN entries |->
     IF SameKey(entries[i], team_name, day, start_time, end_time)
     THEN [entries[i] EXCEPT !.generated = TRUE]
     ELSE entries[i]]

\* the loop without the comparison of end times
mark_entry_generated_any_end(entries, team_name, day, start_time, end_time) ==
  LET hits == {i \in DOMAIN entries :
                 /\ entries[i].team = team_name
                 /\ entries[i].day = day
                 /\ entries[i].start_time = start_time
                 /\ ~entries[i].generated}
  IN IF hits = {} THEN entries
     ELSE LET first == CHOOSE i \in hits : \A j \in hits : i <= j
          IN [entries EXCEPT ![first].generated = TRUE]

\* the loop with its break: the first entry that matches and is not generated
mark_entry_generated(entries, team_name, day, start_time, end_time) ==
  LET hits == {i \in DOMAIN entries :
                 /\ SameKey(entries[i], team_name, day, start_time, end_time)
                 /\ ~entries[i].generated}
  IN IF hits = {} THEN entries
     ELSE LET first == CHOOSE i \in hits : \A j \in hits : i <= j
          IN [entries EXCEPT ![first].generated = TRUE]

NotGenerated(entry) == ~entry.generated

get_missing_entries(entries) == SelectSeq(entries, NotGenerated)

-----------------------------------------------------------------------------
(* CardiologyConfig._find_username_by_identifier                           *)

\* identifier.replace('.', '').strip()
Normalized(text) == Strip(Replace(text, <<".">>, <<>>))

\* name.replace('.', '').strip().lower() of every directory name, by position
NormalizedNames == [i \in Employees |-> Lower(Normalized(EMPLOYEE_MAP[i].emp_name))]

\* rule 1 without the upper-casing
MatchInitialsExactCase(identifier) ==
  IF identifier \in InitialsKeys THEN INITIALS_TO_USERNAME(identifier) ELSE None

\* rule 1: the upper-cased text is a key of INITIALS_TO_USERNAME
MatchInitials(identifier) ==
  IF Upper(identifier) \in InitialsKeys
  THEN INITIALS_TO_USERNAME(Upper(identifier)) ELSE None

\* rule 2: the text is a key of NAME_TO_USERNAME
MatchName(identifier) ==
  IF identifier \in NameKeys THEN NAME_TO_USERNAME(identifier) ELSE None

\* rule 3 without the lower-casing
MatchNormalizedNameExactCase(identifier) ==
  LET identifier_normalized == Normalized(identifier)
      hits == {i \in Employees :
                 identifier_normalized = Normalized(EMPLOYEE_MAP[i].emp_name)}
  IN IF hits = {} THEN None
     ELSE NAME_TO_USERNAME(EMPLOYEE_MAP[CHOOSE i \in hits : \A j \in hits : i <= j].emp_name)

\* rule 3: the first name (in dictionary order) equal to the text once both
\* are stripped of periods and surrounding blanks, and lower-cased
MatchNormalizedName(identifier) ==
  LET identifier_normalized == Lower(Normalized(identifier))
      hits == {i \in Employees : identifier_normalized = NormalizedNames[i]}
  IN IF hits = {} THEN None
     ELSE NAME_TO_USERNAME(EMPLOYEE_MAP[CHOOSE i \in hits : \A j \in hits : i <= j].emp_name)

\* the initials test with a bound of 2 characters
LooksLikeInitialsShort(identifier) == Len(identifier) <= 2 /\ IsUpper(identifier)

\* len(identifier) <= 4 and identifier.isupper()
LooksLikeInitials(identifier) == Len(identifier) <= 4 /\ IsUpper(identifier)

\* the value returned for a cell value
FindUsername(cell) ==
  IF cell = <<>> THEN None
  ELSE LET identifier == Strip(cell)
           by_initials == MatchInitials(identifier)
           by_name == MatchName(identifier)
       IN IF by_initials # None THEN by_initials
          ELSE IF by_name # None THEN by_name
          ELSE MatchNormalizedName(identifier)

\* the call with each set assigned the new text instead of gaining it
find_username_by_identifier_assign(cell, names, initials) ==
  LET username == FindUsername(cell)
      identifier == Strip(cell)
  IN IF cell = <<>> \/ username # None
     THEN [ret |-> username, unknown_names |-> names, unknown_initials |-> initials]
     ELSE IF LooksLikeInitials(identifier)
          THEN [ret |-> None, unknown_names |-> names, unknown_initials |-> {identifier}]
          ELSE [ret |-> None, unknown_names |-> {identifier}, unknown_initials |-> initials]

\* the whole call: the value returned and the tracker's two sets after it
find_username_by_identifier(cell, names, initials) ==
  LET username == FindUsername(cell)
      identifier == Strip(cell)
  IN IF cell = <<>> \/ username # None
     THEN [ret |-> username, unknown_names |-> names, unknown_initials |-> initials]
     ELSE IF LooksLikeInitials(identifier)
          THEN [ret |-> None, unknown_names |-> names,
                unknown_initials |-> initials \cup {identifier}]
          ELSE [ret |-> None, unknown_names |-> names \cup {identifier},
                unknown_initials |-> initials]

-----------------------------------------------------------------------------
(* Direct calls on a fresh tracker: add_expected_entry and                 *)
(* mark_entry_generated with arbitrary keys, in any order.                 *)

MaxCalls == 4

\* one base key and four keys that differ from it in exactly one field
TrackerKeys ==
  { [team |-> "Cardiology", day |-> 1, start_time |-> "700",  end_time |-> "1600"],
    [team |-> "Gen_CT",     day |-> 1, start_time |-> "700",  end_time |-> "1600"],
    [team |-> "Cardiology", day |-> 2, start_time |-> "700",  end_time |-> "1600"],
    [team |-> "Cardiology", day |-> 1, start_time |-> "1600", end_time |-> "1600"],
    [team |-> "Cardiology", day |-> 1, start_time |-> "700",  end_time |-> "1900"] }

NoCall == [op |-> "none"]

NoRun == [dept |-> "none"]

NoWorkbooks == [dept |-> "none"]

NoDate == [year |-> 0, month |-> 0, day |-> 0]

InitTracker ==
  /\ expected_entries = <<>>
  /\ unknown_names = {}
  /\ unknown_initials = {}
  /\ output_data = <<>>
  /\ workbooks = NoWorkbooks
  /\ run = NoRun
  /\ call = NoCall
  /\ log = <<>>
  /\ date = NoDate
  /\ dow = 0
  /\ weekday_flag = FALSE

\* tracker.add_expected_entry(team, day, start, end, source); the source tag
\* is the ordinal of the call, so entries with equal keys stay distinguishable
AddExpectedEntry ==
  \E k \in TrackerKeys :
    /\ Len(log) < MaxCalls
    /\ expected_entries' = add_expected_entry(expected_entries, k.team, k.day,
                              k.start_time, k.end_time, Len(log) + 1, <<>>)
    /\ call' = [op |-> "add", key |-> k, source |-> Len(log) + 1]
    /\ log' = Append(log, call')
    /\ UNCHANGED <<unknown_names, unknown_initials, output_data, workbooks, run, calendarVars>>

\* tracker.mark_entry_generated(team, day, start, end)
MarkEntryGenerated ==
  \E k \in TrackerKeys :
    /\ Len(log) < MaxCalls
    /\ expected_entries' = mark_entry_generated(expected_entries, k.team, k.day,
                              k.start_time, k.end_time)
    /\ call' = [op |-> "mark", key |-> k, source |-> 0]
    /\ log' = Append(log, call')
    /\ UNCHANGED <<unknown_names, unknown_initials, output_data, workbooks, run, calendarVars>>

NextTracker == AddExpectedEntry \/ MarkEntryGenerated

SpecTracker == InitTracker /\ [][NextTracker]_vars

-----------------------------------------------------------------------------
(* What the call log says about one key.                                   *)

KeyOf(entry) == [team |-> entry.team, day |-> entry.day,
                 start_time |-> entry.start_time, end_time |-> entry.end_time]

IsAddOf(c, k) == c.op = "add" /\ c.key = k
IsMarkOf(c, k) == c.op = "mark" /\ c.key = k

CountCalls(calls, Test(_, _), k) == Cardinality({i \in DOMAIN calls : Test(calls[i], k)})

\* every mark call for k came when more registrations than marks of k had
\* been made before it
MarksFollowRegistrations(k) ==
  \A i \in DOMAIN log :
    IsMarkOf(log[i], k) =>
      CountCalls(SubSeq(log, 1, i - 1), IsAddOf, k)
        > CountCalls(SubSeq(log, 1, i - 1), IsMarkOf, k)

\* the source tags of the registrations of k, in call order
RegistrationsOf(k) ==
  LET IsReg(c) == IsAddOf(c, k)
      regs == SelectSeq(log, IsReg)
  IN [i \in DOMAIN regs |-> regs[i].source]

\* the source tags of the missing entries of k, in list order
MissingOf(k) ==
  LET HasKey(e) == KeyOf(e) = k
      missing == SelectSeq(get_missing_entries(expected_entries), HasKey)
  IN [i \in DOMAIN missing |-> missing[i].source]

AddCalls == SelectSeq(log, LAMBDA c : c.op = "add")

(* C2: a mark_entry_generated call flips at most one registration, the      *)
(* earliest-registered one that is not yet generated and matches the call   *)
(* on team, day, start time and end time; every other entry is unchanged,   *)
(* no generated flag is ever reset, and a call with no unsatisfied          *)
(* matching entry leaves the tracker exactly as it was.                     *)
C2_MarkStep ==
  (call'.op = "mark" /\ log' # log) =>
    LET k == call'.key
        pre == expected_entries
        post == expected_entries'
        hits == {i \in DOMAIN pre : KeyOf(pre[i]) = k /\ ~pre[i].generated}
    IN /\ DOMAIN post = DOMAIN pre
       /\ \A i \in DOMAIN pre : pre[i].generated => post[i].generated
       /\ Cardinality({i \in DOMAIN pre : post[i] # pre[i]}) <= 1
       /\ unknown_names' = unknown_names
       /\ unknown_initials' = unknown_initials
       /\ IF hits = {} THEN post = pre
          ELSE \E first \in hits :
                 /\ \A j \in hits : first <= j
                 /\ post[first] = [pre[first] EXCEPT !.generated = TRUE]
                 /\ \A i \in DOMAIN pre : i # first => post[i] = pre[i]

C2_MarkFlipsFirstMatch == [][C2_MarkStep]_vars

\* a mark call has flipped the earlier of two entries with its key and left
\* the later one, and an entry that differs in one field, as they were
C2_Witness ==
  /\ call.op = "mark"
  /\ \E i, j \in DOMAIN expected_entries :
       /\ i < j
       /\ KeyOf(expected_entries[i]) = call.key /\ expected_entries[i].generated
       /\ KeyOf(expected_entries[j]) = call.key /\ ~expected_entries[j].generated
  /\ \E i \in DOMAIN expected_entries :
       KeyOf(expected_entries[i]) # call.key /\ ~expected_entries[i].generated

(* C3: add_expected_entry never deduplicates: the list holds one entry per  *)
(* add call, in call order, each with the key and tag it was registered     *)
(* with; and for a key registered n times and then marked k <= n times      *)
(* (every mark coming after more registrations than marks of that key),     *)
(* get_missing_entries holds exactly the last n - k registrations of the    *)
(* key, in registration order.                                              *)
C3_NoDedupAndMissing ==
  /\ Len(expected_entries) = Len(AddCalls)
  /\ \A i \in DOMAIN expected_entries :
       /\ KeyOf(expected_entries[i]) = AddCalls[i].key
       /\ expected_entries[i].source = AddCalls[i].source
  /\ \A k \in TrackerKeys :
       MarksFollowRegistrations(k) =>
         LET n == CountCalls(log, IsAddOf, k)
             m == CountCalls(log, IsMarkOf, k)
         IN /\ m <= n
            /\ Len(MissingOf(k)) = n - m
            /\ MissingOf(k) = SubSeq(RegistrationsOf(k), m + 1, n)

\* three registrations of one key, one mark: two entries of it are missing
C3_Witness ==
  \E k \in TrackerKeys :
    /\ CountCalls(log, IsAddOf, k) = 3
    /\ CountCalls(log, IsMarkOf, k) = 1
    /\ MarksFollowRegistrations(k)
    /\ Len(MissingOf(k)) = 2

-----------------------------------------------------------------------------
(* Direct calls of _find_username_by_identifier on a fresh tracker.        *)

MaxTextLen == 3

MaxResolves == 3

TextAlphabet == {"A", "K", "a", "k", ".", " "}

\* every text over TextAlphabet of at most MaxTextLen characters
ShortTexts == UNION {[1..n -> TextAlphabet] : n \in 0..MaxTextLen}

\* 'A.K' for 'AK': the characters joined by periods
RECURSIVE Dotted(_)
Dotted(s) == IF Len(s) <= 1 THEN s ELSE <<s[1], ".">> \o Dotted(Tail(s))

\* every configured initials value in upper case, lower case and dotted
InitialsVariants ==
  UNION {{k, Lower(k), Dotted(k)} : k \in InitialsKeys}

\* names, their variants, and texts that resolve to nobody
NamedTexts ==
  { <<"Q","u","r","e","s","h","i">>, <<"q","u","r","e","s","h","i">>, <<"Q","U","R","E","S","H","I">>, <<" ","Q","u","r","e","s","h","i"," ">>,
    <<"M","."," ","E","n","a","d","i">>, <<"M"," ","E","n","a","d","i">>, <<"m","."," ","e","n","a","d","i">>, <<"M",".","E","n","a","d","i">>,
    <<"K","o","n","s","a">>, <<"K","o","n","s","a"," ",".">>, <<"."," ","K","o","n","s","a">>, <<"K","o","n",".","s","a">>,
    <<"D","r","."," ","A","l","l","i","s","o","n"," ","L","i","v","i","n","g","s","t","o","n">>, <<"D","r"," ","A","l","l","i","s","o","n"," ","L","i","v","i","n","g","s","t","o","n">>, <<"d","r"," ","a","l","l","i","s","o","n"," ","l","i","v","i","n","g","s","t","o","n">>,
    <<"U","n","k","n","o","w","n"," ","P","e","r","s","o","n">>, <<"S","m","i","t","h">>,
    <<"Z","Z","Z">>, <<"Z","Z","Z","Z">>, <<"Z","Z","Z","Z","Z">>, <<"Z","z","z">>, <<"z","z","z">>, <<"Z",".","Z">>, <<"9","9">>, <<"Z","9","9">>, <<" ","Z","Z","Z"," ">>,
    <<" ">>, <<>> }

OnceTexts == ShortTexts \cup InitialsVariants \cup NamedTexts

\* the texts of the multi-call runs: resolvable ones, unresolved
\* initials-like and name-like ones, and pairs that strip to the same text
ResolverTexts ==
  { <<"A","K">>, <<"a","k">>, <<"A",".","K">>, <<"Q","u","r","e","s","h","i">>, <<"m","."," ","e","n","a","d","i">>, <<"K","o","n","s","a"," ",".">>,
    <<"Z","Z","Z">>, <<" ","Z","Z","Z"," ">>, <<"Z","Z","Z","Z">>, <<"Z","Z","Z","Z","Z">>, <<"z","z","z">>, <<"9","9">>,
    <<"U","n","k","n","o","w","n"," ","P","e","r","s","o","n">>, <<" ">>, <<>> }

\* username = self._find_username_by_identifier(text)
ResolveCall(text) ==
  LET r == find_username_by_identifier(text, unknown_names, unknown_initials)
  IN /\ unknown_names' = r.unknown_names
     /\ unknown_initials' = r.unknown_initials
     /\ call' = [op |-> "find", text |-> text, ret |-> r.ret]
     /\ log' = Append(log, call')
     /\ UNCHANGED <<expected_entries, output_data, workbooks, run, calendarVars>>

\* one call on a fresh tracker, for any text
ResolveOnce == log = <<>> /\ \E text \in OnceTexts : ResolveCall(text)

SpecResolveOnce == InitTracker /\ [][ResolveOnce]_vars

\* up to MaxResolves calls in a row on the same tracker
Resolve == Len(log) < MaxResolves /\ \E text \in ResolverTexts : ResolveCall(text)

SpecResolver == InitTracker /\ [][Resolve]_vars

-----------------------------------------------------------------------------
(* What the directory says about a text, rule by rule.                     *)

\* the text with every period removed (nothing else)
WithoutPeriods(text) == SelectSeq(text, LAMBDA c : c # ".")

IdsWithInitials(text) ==
  {EMPLOYEE_MAP[i].id : i \in {j \in Employees : EMPLOYEE_MAP[j].emp_initials = Upper(text)}}

IdsWithName(text) ==
  {EMPLOYEE_MAP[i].id : i \in {j \in Employees : EMPLOYEE_MAP[j].emp_name = text}}

\* rule 3 as first stated: periods removed on both sides, case ignored
IdsWithPeriodlessName(text) ==
  {EMPLOYEE_MAP[i].id : i \in {j \in Employees :
      Lower(WithoutPeriods(text)) = Lower(WithoutPeriods(EMPLOYEE_MAP[j].emp_name))}}

\* rule 3 as the code applies it: periods removed, then surrounding blanks
IdsWithTrimmedPeriodlessName(text) ==
  {EMPLOYEE_MAP[i].id : i \in {j \in Employees :
      Lower(Strip(WithoutPeriods(text))) = Lower(Strip(WithoutPeriods(EMPLOYEE_MAP[j].emp_name)))}}

\* the outcomes the three rules allow, tried in order on the stripped text
RuleOutcomes(text, Rule3(_)) ==
  LET t == Strip(text)
  IN IF text = <<>> THEN {None}
     ELSE IF IdsWithInitials(t) # {} THEN IdsWithInitials(t)
     ELSE IF IdsWithName(t) # {} THEN IdsWithName(t)
     ELSE IF Rule3(t) # {} THEN Rule3(t)
     ELSE {None}

AllIds == {EMPLOYEE_MAP[i].id : i \in Employees}

(* C4 as amended: the call returns the identifier found by the first        *)
(* matching rule, in the order (1) upper-cased text equals an initials      *)
(* value, (2) text equals a full name exactly, (3) the text with periods    *)
(* removed AND THEN trimmed of surrounding blanks equals a full name        *)
(* treated the same way, ignoring case; it returns unresolved only when     *)
(* none matches; every input yields a result, and an empty input yields     *)
(* unresolved and records nothing.                                          *)
C4_FirstMatchingRuleTrimmed ==
  call.op = "find" =>
    /\ call.ret \in AllIds \cup {None}
    /\ call.ret \in RuleOutcomes(call.text, IdsWithTrimmedPeriodlessName)
    /\ call.text = <<>> =>
         call.ret = None /\ unknown_names = {} /\ unknown_initials = {}

\* a text that only rule 3 resolves, thanks to the trimming
C4_Witness ==
  /\ call.op = "find"
  /\ call.text = <<"K","o","n","s","a"," ",".">>
  /\ call.ret = "konasje"

(* C4 as first stated: rule 3 compares the text and the name with their     *)
(* periods removed, ignoring case, and nothing more.                        *)
C4_FirstMatchingRule ==
  call.op = "find" =>
    call.ret \in RuleOutcomes(call.text, IdsWithPeriodlessName)

\* the identifier the directory gives the initials k
IdOfInitials(k) == INITIALS_TO_USERNAME(k)

(* C5 as amended: for every configured initials value (for example 'AK')    *)
(* the upper-case and the lower-case form return the same employee          *)
(* identifier; the period-separated form of initials of two or more         *)
(* characters ('A.K') matches no rule, returns unresolved and is recorded.  *)
C5_CaseVariantsAgree ==
  call.op = "find" =>
    \A k \in InitialsKeys :
      /\ call.text \in {k, Lower(k)} => call.ret = IdOfInitials(k)
      /\ (Len(k) >= 2 /\ call.text = Dotted(k)) =>
           /\ call.ret = None
           /\ call.text \in unknown_names \cup unknown_initials

\* 'ak' has been resolved to the employee whose initials are 'AK'
C5_Witness ==
  /\ call.op = "find"
  /\ call.text = <<"a","k">>
  /\ call.ret = "allwo0f"

(* C5 as first stated: the upper-case, lower-case and period-separated      *)
(* forms of configured initials all return the same employee identifier.    *)
C5_AllVariantsAgree ==
  call.op = "find" =>
    \A k \in InitialsKeys :
      call.text \in {k, Lower(k), Dotted(k)} => call.ret = IdOfInitials(k)

-----------------------------------------------------------------------------
(* Runs of several calls.                                                   *)

\* the stripped texts of the calls that found nobody (an empty cell value
\* returns before any rule is tried and is not among them)
UnresolvedTexts ==
  {Strip(log[i].text) : i \in {j \in DOMAIN log : log[j].ret = None /\ log[j].text # <<>>}}

\* at most 4 characters, at least one letter, no lower-case letter
InitialsLike(text) ==
  /\ Len(text) <= 4
  /\ \E i \in DOMAIN text : text[i] \in UpperSet
  /\ \A i \in DOMAIN text : text[i] \notin LowerSet

(* C6: a text that no rule matches is added, stripped, to exactly one       *)
(* unresolved set: unresolved-initials when it has at most 4 characters     *)
(* and is entirely upper-case, unresolved-names otherwise; never to both,   *)
(* and resolving it again adds no second element.  An unregistered          *)
(* 3-letter upper-case token is in unresolved-initials only.                *)
C6_ExactlyOneUnresolvedSet ==
  /\ unknown_initials = {t \in UnresolvedTexts : InitialsLike(t)}
  /\ unknown_names = {t \in UnresolvedTexts : ~InitialsLike(t)}
  /\ unknown_initials \cap unknown_names = {}
  /\ Cardinality(unknown_initials) + Cardinality(unknown_names)
       = Cardinality(UnresolvedTexts)
  /\ <<"Z","Z","Z">> \in UnresolvedTexts =>
       <<"Z","Z","Z">> \in unknown_initials /\ <<"Z","Z","Z">> \notin unknown_names

\* 'ZZZ' resolved twice and a name-like text once
C6_Witness ==
  /\ Len(log) = 3
  /\ Cardinality({i \in DOMAIN log : Strip(log[i].text) = <<"Z","Z","Z">>}) = 2
  /\ unknown_initials = {<<"Z","Z","Z">>}
  /\ Cardinality(unknown_names) = 1

\* what one call on a fresh tracker returns and records
Alone(text) == find_username_by_identifier(text, {}, {})

(* C7: resolution is idempotent and order-independent: a call for a text    *)
(* resolved before returns what it returned before and changes neither      *)
(* unresolved set; a successful call changes neither set; and after any     *)
(* sequence of calls every text has the result it has when resolved alone   *)
(* and the two sets are the unions of what each text records alone, which   *)
(* depends on the collection of texts only, not on their order.             *)
C7_ResolveStep ==
  (call'.op = "find" /\ log' # log) =>
    /\ call'.ret # None =>
         unknown_names' = unknown_names /\ unknown_initials' = unknown_initials
    /\ \A i \in DOMAIN log :
         log[i].text = call'.text =>
           /\ call'.ret = log[i].ret
           /\ unknown_names' = unknown_names
           /\ unknown_initials' = unknown_initials
    /\ \A i \in DOMAIN log' : log'[i].ret = Alone(log'[i].text).ret
    /\ unknown_names' = UNION {Alone(log'[i].text).unknown_names : i \in DOMAIN log'}
    /\ unknown_initials' = UNION {Alone(log'[i].text).unknown_initials : i \in DOMAIN log'}

C7_IdempotentOrderIndependent == [][C7_ResolveStep]_vars

\* an unresolved text resolved a second time after another unresolved text
C7_Witness ==
  /\ Len(log) = 3
  /\ log[1].text = log[3].text
  /\ log[1].text # log[2].text
  /\ log[1].ret = None /\ log[2].ret = None
  /\ unknown_initials # {} /\ unknown_names # {}

-----------------------------------------------------------------------------
(* Dates: datetime(year, month, day), calendar.monthrange, timedelta and   *)
(* the week-day classification (Converter.py, is_weekday).                 *)

\* the years the month/year form accepts (min_value, max_value)
MinYear == 2020
MaxYear == 2030

isleap(year) == year % 4 = 0 /\ (year % 100 # 0 \/ year % 400 = 0)

\* calendar.monthrange(year, month)[1]
DaysInMonth(year, month) ==
  IF month = 2 THEN (IF isleap(year) THEN 29 ELSE 28)
  ELSE IF month \in {4, 6, 9, 11} THEN 30 ELSE 31

Date(year, month, day) == [year |-> year, month |-> month, day |-> day]

\* the next date taken to be the date itself
NextDateSameDay(d) == d

\* date + timedelta(days=1)
NextDate(d) ==
  IF d.day < DaysInMonth(d.year, d.month) THEN Date(d.year, d.month, d.day + 1)
  ELSE IF d.month < 12 THEN Date(d.year, d.month + 1, 1)
  ELSE Date(d.year + 1, 1, 1)

\* date.toordinal(): the days from 0001-01-01 (ordinal 1) to the date
DaysBeforeYear(year) ==
  LET y == year - 1 IN y * 365 + y \div 4 - y \div 100 + y \div 400

RECURSIVE DaysBeforeMonth(_, _)
DaysBeforeMonth(year, month) ==
  IF month = 1 THEN 0
  ELSE DaysBeforeMonth(year, month - 1) + DaysInMonth(year, month - 1)

toordinal(d) == DaysBeforeYear(d.year) + DaysBeforeMonth(d.year, d.month) + d.day

\* date.weekday(): Monday is 0, Sunday is 6
weekday(d) == (toordinal(d) + 6) % 7

\* a week-day test with the Monday-to-Friday convention
is_weekday_mon_fri(d) == weekday(d) \in {0, 1, 2, 3, 4}

\* return date.weekday() in [6, 0, 1, 2, 3]
is_weekday(d) == weekday(d) \in {6, 0, 1, 2, 3}

(* The calendar walked one day at a time from 1 January MinYear, a         *)
(* Wednesday, with is_weekday applied to every date reached; dow counts    *)
(* the days of the week from Sunday = 0.                                   *)
InitCalendar ==
  /\ expected_entries = <<>>
  /\ unknown_names = {}
  /\ unknown_initials = {}
  /\ output_data = <<>>
  /\ workbooks = NoWorkbooks
  /\ run = NoRun
  /\ call = NoCall
  /\ log = <<>>
  /\ date = Date(MinYear, 1, 1)
  /\ dow = 3
  /\ weekday_flag = is_weekday(Date(MinYear, 1, 1))

NextDay ==
  /\ NextDate(date).year <= MaxYear
  /\ date' = NextDate(date)
  /\ dow' = (dow + 1) % 7
  /\ weekday_flag' = is_weekday(NextDate(date))
  /\ UNCHANGED <<trackerVars, output_data, workbooks, run, call, log>>

SpecCalendar == InitCalendar /\ [][NextDay]_vars

(* C8: for every date is_weekday returns true exactly when the date falls  *)
(* on Sunday, Monday, Tuesday, Wednesday or Thursday, and false exactly    *)
(* when it falls on Friday or Saturday.                                    *)
C8_WeekdayIsSunToThu ==
  /\ weekday_flag <=> dow \in {0, 1, 2, 3, 4}
  /\ ~weekday_flag <=> dow \in {5, 6}

\* Friday 2 February 2024 has been reached and classified as a weekend day
C8_Witness == date = Date(2024, 2, 2) /\ dow = 5 /\ ~weekday_flag

-----------------------------------------------------------------------------
(* Worksheets and records.                                                  *)

\* ws.cell(row=row, column=column).value; an empty cell reads as None
Cell(ws, row, column) ==
  IF <<row, column>> \in DOMAIN ws THEN ws[<<row, column>>] ELSE <<>>

RECURSIVE ColumnFold(_, _)
ColumnFold(letters, result) ==
  IF letters = <<>> THEN result
  ELSE ColumnFold(Tail(letters),
         result * 26 + (CHOOSE i \in 1..26 : UpperLetters[i] = letters[1]))

\* col_letter_to_index: 'A' is 1, 'Z' is 26, 'AA' is 27
col_letter_to_index(letter) == ColumnFold(Upper(letter), 0)

Digits == <<"0", "1", "2", "3", "4", "5", "6", "7", "8", "9">>

\* a number below 100 written with two digits
TwoDigits(n) == <<Digits[(n \div 10) + 1], Digits[(n % 10) + 1]>>

\* date.strftime('%m/%d/%Y'): zero-padded month and day and the year
strftime(d) ==
  TwoDigits(d.month) \o <<"/">> \o TwoDigits(d.day) \o <<"/">>
    \o TwoDigits(d.year \div 100) \o TwoDigits(d.year % 100)

create_schedule_entry(username, team_id, start_date, start_time, end_date, end_time, role) ==
  [EMPLOYEE |-> username, TEAM |-> team_id,
   STARTDATE |-> strftime(start_date), STARTTIME |-> start_time,
   ENDDATE |-> strftime(end_date), ENDTIME |-> end_time,
   ROLE |-> role, NOTES |-> ""]

\* entry['NOTES'] = notes
WithNotes(entry, notes) == [entry EXCEPT !.NOTES = notes]

-----------------------------------------------------------------------------
(* RadiologyConfig: the team table and the two lookups.                     *)

\* config['teams'], in dictionary order
RadiologyTeams ==
  << [name |-> "Gen_CT", team_id |-> "114", work_cols |-> <<<<"H">>, <<"I">>>>, oncall_rows |-> <<5, 21>>],
     [name |-> "IRA",    team_id |-> "115", work_cols |-> <<<<"M">>>>,       oncall_rows |-> <<24, 27>>],
     [name |-> "MRI",    team_id |-> "116", work_cols |-> <<<<"C">>>>,       oncall_rows |-> <<30, 38>>],
     [name |-> "US",     team_id |-> "126", work_cols |-> <<<<"E">>>>,       oncall_rows |-> <<5, 21>>],
     [name |-> "Fluoro", team_id |-> "127", work_cols |-> <<<<"O">>>>,       oncall_rows |-> <<5, 21>>] >>

\* row_ranges = [(5, 9), (13, 17), (21, 25), (29, 33), (37, 41)], row by row
WorkRows ==
  << 5, 6, 7, 8, 9, 13, 14, 15, 16, 17, 21, 22, 23, 24, 25,
     29, 30, 31, 32, 33, 37, 38, 39, 40, 41 >>

DigitSet == {Digits[i] : i \in 1..10}
DigitValue(c) == (CHOOSE i \in 1..10 : Digits[i] = c) - 1

RECURSIVE DigitsFold(_, _)
DigitsFold(s, n) == IF s = <<>> THEN n ELSE DigitsFold(Tail(s), 10 * n + DigitValue(s[1]))

\* int(text): the number, or -1 where int raises ValueError
ParseInt(text) ==
  LET t == Strip(text)
  IN IF t # <<>> /\ \A i \in DOMAIN t : t[i] \in DigitSet THEN DigitsFold(t, 0) ELSE -1

\* a cell holding a datetime is the tag "datetime" followed by the digits
\* of its day of the month
IsDatetime(cell) == cell # <<>> /\ cell[1] = "datetime"

\* the day number of a non-empty day cell, or -1 where the row is skipped
DayOfCell(day_cell) ==
  IF IsDatetime(day_cell) THEN DigitsFold(Tail(day_cell), 0)
  ELSE LET day_str == Strip(day_cell)
       IN IF Contains(day_str, <<"-">>) THEN ParseInt(Split(day_str, "-")[1])
          ELSE ParseInt(day_str)

\* readers = [r.strip() for r in emp_str.split('/') if r.strip()]
Readers(emp_str) ==
  LET fields == Split(emp_str, "/")
      stripped == [i \in DOMAIN fields |-> Strip(fields[i])]
  IN SelectSeq(stripped, LAMBDA r : r # <<>>)

\* the loop returning its first reader, whatever it is
ReadersScanFirst(readers, i, initials) ==
  [ret |-> IF readers = <<>> THEN <<>> ELSE readers[1], unknown_initials |-> initials]

RECURSIVE ReadersScan(_, _, _)
\* the loop over the readers of a combined cell, from reader i on
ReadersScan(readers, i, initials) ==
  IF i > Len(readers) THEN [ret |-> <<>>, unknown_initials |-> initials]
  ELSE IF readers[i] # <<"T","E","L","E">> /\ readers[i] \in InitialsKeys
       THEN [ret |-> readers[i], unknown_initials |-> initials]
       ELSE IF readers[i] # <<"T","E","L","E">>
            THEN ReadersScan(readers, i + 1, initials \cup {readers[i]})
            ELSE ReadersScan(readers, i + 1, initials)

RECURSIVE WorkScan(_, _, _, _, _)
\* the loop over the rows of the work grid, from the k-th row on
WorkScan(ws_work, day_num, col_idx, k, initials) ==
  IF k > Len(WorkRows) THEN [ret |-> <<>>, unknown_initials |-> initials]
  ELSE
    LET row == WorkRows[k]
        day_cell == Cell(ws_work, row, 1)
        emp_cell == Cell(ws_work, row, col_idx)
        emp_str == Upper(Strip(emp_cell))
    IN IF day_cell = <<>> \/ DayOfCell(day_cell) # day_num \/ emp_cell = <<>>
       THEN WorkScan(ws_work, day_num, col_idx, k + 1, initials)
       ELSE IF Contains(emp_str, <<"/">>)
       THEN LET readers == Readers(emp_str)
                found == ReadersScan(readers, 1, initials)
            IN IF found.ret # <<>> THEN found
               ELSE IF (\E i \in DOMAIN readers : readers[i] = <<"T","E","L","E">>)
                       /\ <<"T","E","L","E">> \in InitialsKeys
               THEN [ret |-> <<"T","E","L","E">>, unknown_initials |-> found.unknown_initials]
               ELSE WorkScan(ws_work, day_num, col_idx, k + 1, found.unknown_initials)
       ELSE IF emp_str \in InitialsKeys
       THEN [ret |-> emp_str, unknown_initials |-> initials]
       ELSE WorkScan(ws_work, day_num, col_idx, k + 1, initials \cup {emp_str})

\* the initials returned (None as <<>>) and the unknown initials after the call
get_employee_from_work_schedule(ws_work, day_num, col_letter, initials) ==
  WorkScan(ws_work, day_num, col_letter_to_index(col_letter), 1, initials)

\* emp_data['emp_name'].upper()
EmpNameUpper == [i \in Employees |-> Upper(EMPLOYEE_MAP[i].emp_name)]

\* text.replace('DR.', '').replace('DR', '').strip()
WithoutTitle(text) == Strip(Replace(Replace(text, <<"D","R",".">>, <<>>), <<"D","R">>, <<>>))

EmpNameToMatch == [i \in Employees |-> WithoutTitle(EmpNameUpper[i])]

\* whether the upper-cased row name matches employee i
NameMatches(full_name, i) ==
  IF Contains(full_name, <<",">>)
  THEN LET parts == Split(full_name, ",")
           last_name == Strip(parts[1])
           first_name == IF Len(parts) > 1 THEN Strip(parts[2]) ELSE <<>>
       IN /\ Contains(EmpNameUpper[i], last_name)
          /\ \/ first_name # <<>> /\ Contains(EmpNameUpper[i], first_name)
             \/ first_name = <<>>
  ELSE LET name_to_match == WithoutTitle(full_name)
       IN \/ Contains(EmpNameToMatch[i], name_to_match)
          \/ Contains(name_to_match, EmpNameToMatch[i])

\* the initials of the first employee the row name matches, or None
MatchOncallName(name_cell) ==
  LET full_name == Upper(Strip(name_cell))
      hits == {i \in Employees : NameMatches(full_name, i)}
  IN IF hits = {} THEN <<>>
     ELSE EMPLOYEE_MAP[CHOOSE i \in hits : \A j \in hits : i <= j].emp_initials

\* day_col = 3 + day_num
OncallDayColumnShifted(day_num) == 2 + day_num

OncallDayColumn(day_num) == 3 + day_num

RECURSIVE OncallScanContinuing(_, _, _, _, _)
\* the loop going on to the next row after a marked row of unknown name
OncallScanContinuing(ws_oncall, day_num, row, row_end, names) ==
  IF row > row_end THEN [ret |-> <<>>, unknown_names |-> names]
  ELSE
    LET name_cell == Cell(ws_oncall, row, 1)
        cell_value == Cell(ws_oncall, row, OncallDayColumn(day_num))
    IN IF row \in {23, 29} \/ name_cell = <<>> \/ Strip(name_cell) = <<>>
       THEN OncallScanContinuing(ws_oncall, day_num, row + 1, row_end, names)
       ELSE IF cell_value # <<>> /\ Upper(Strip(cell_value)) = <<"X">>
       THEN LET initials == MatchOncallName(name_cell)
            IN IF initials # <<>> THEN [ret |-> initials, unknown_names |-> names]
               ELSE OncallScanContinuing(ws_oncall, day_num, row + 1, row_end,
                                         names \cup {Strip(name_cell)})
       ELSE OncallScanContinuing(ws_oncall, day_num, row + 1, row_end, names)

RECURSIVE OncallScan(_, _, _, _, _)
\* the loop over the rows of a team's range, from row on
OncallScan(ws_oncall, day_num, row, row_end, names) ==
  IF row > row_end THEN [ret |-> <<>>, unknown_names |-> names]
  ELSE
    LET name_cell == Cell(ws_oncall, row, 1)
        cell_value == Cell(ws_oncall, row, OncallDayColumn(day_num))
    IN IF row \in {23, 29} \/ name_cell = <<>> \/ Strip(name_cell) = <<>>
       THEN OncallScan(ws_oncall, day_num, row + 1, row_end, names)
       ELSE IF cell_value # <<>> /\ Upper(Strip(cell_value)) = <<"X">>
       THEN LET initials == MatchOncallName(name_cell)
            IN IF initials # <<>> THEN [ret |-> initials, unknown_names |-> names]
               ELSE [ret |-> <<>>, unknown_names |-> names \cup {Strip(name_cell)}]
       ELSE OncallScan(ws_oncall, day_num, row + 1, row_end, names)

\* the initials returned (None as <<>>) and the unknown names after the call
get_employee_from_oncall_schedule(ws_oncall, day_num, row_start, row_end, names) ==
  OncallScan(ws_oncall, day_num, row_start, row_end, names)

-----------------------------------------------------------------------------
(* The worksheets and reader results an extraction run starts from.  A run  *)
(* is a department, a year and month, and one of three fillings of its      *)
(* input: "full" (every cell filled with an employee of the directory),     *)
(* "mixed" (the cell formats and the unknown, combined and missing entries  *)
(* the lookups distinguish) and "empty".                                    *)

RunMonths == {<<2024, 2>>, <<2024, 12>>}

Scenarios == {"full", "mixed", "empty"}

Departments == {"Radiology", "Cardiology"}

DayText(d) ==
  IF d < 10 THEN <<Digits[d + 1]>> ELSE <<Digits[(d \div 10) + 1], Digits[(d % 10) + 1]>>

MonthDays(year, month) == [d \in 1..DaysInMonth(year, month) |-> d]

MonthWeekdays(year, month) ==
  SelectSeq(MonthDays(year, month), LAMBDA d : is_weekday(Date(year, month, d)))

MonthWeekendDays(year, month) ==
  SelectSeq(MonthDays(year, month), LAMBDA d : ~is_weekday(Date(year, month, d)))

\* the days written into the rows of the work grid, top to bottom: the
\* week-days of the month, then as many other days as rows are left
GridDays(year, month, others) ==
  SubSeq(MonthWeekdays(year, month) \o others, 1, Len(WorkRows))

RadiologyStaff == SelectSeq(EMPLOYEE_MAP, LAMBDA emp : emp.department = "Radiology")

StaffOf(n) == RadiologyStaff[(n % Len(RadiologyStaff)) + 1]

WorkColumns ==
  UNION {{col_letter_to_index(RadiologyTeams[t].work_cols[j]) :
            j \in DOMAIN RadiologyTeams[t].work_cols} : t \in DOMAIN RadiologyTeams}

RowIndex(row) == CHOOSE k \in DOMAIN WorkRows : WorkRows[k] = row

WorkCells(days) == {<<WorkRows[k], c>> : k \in DOMAIN days, c \in {1} \cup WorkColumns}

FullWorkSheet(year, month) ==
  LET days == GridDays(year, month, MonthWeekendDays(year, month))
  IN [cell \in WorkCells(days) |->
        LET d == days[RowIndex(cell[1])]
        IN IF cell[2] = 1 THEN DayText(d) ELSE StaffOf(d + cell[2]).emp_initials]

DayCellVariant(d, k) ==
  CASE k % 5 = 0 -> DayText(d)
    [] k % 5 = 1 -> DayText(d) \o <<"-","M","o","n">>
    [] k % 5 = 2 -> <<"datetime">> \o DayText(d)
    [] k % 5 = 3 -> <<" ">> \o DayText(d) \o <<" ">>
    [] OTHER     -> <<"M","o","n">>

EmpCellVariant(d, c) ==
  CASE (d + c) % 6 = 0 -> Lower(StaffOf(d).emp_initials)
    [] (d + c) % 6 = 1 -> <<"Z","Z">>
    [] (d + c) % 6 = 2 -> <<"m","f","/","t","e","l","e">>
    [] (d + c) % 6 = 3 -> <<"Z","Z"," ","/"," ","T","E","L","E">>
    [] (d + c) % 6 = 4 -> <<>>
    [] OTHER           -> <<"T","E","L","E">>

MixedWorkSheet(year, month) ==
  LET days == GridDays(year, month, MonthWeekdays(year, month))
  IN [cell \in WorkCells(days) |->
        LET k == RowIndex(cell[1])
        IN IF cell[2] = 1 THEN DayCellVariant(days[k], k)
           ELSE IF k > Len(MonthWeekdays(year, month))
                THEN StaffOf(days[k] + cell[2]).emp_initials
                ELSE EmpCellVariant(days[k], cell[2])]

OncallRanges == {RadiologyTeams[t].oncall_rows : t \in DOMAIN RadiologyTeams}

OncallRows == UNION {rng[1]..rng[2] : rng \in OncallRanges}

\* the row of a range marked for a day
MarkedRow(rng, d) == rng[1] + (d % (rng[2] - rng[1] + 1))

MarkedCells(year, month, days) ==
  {<<MarkedRow(rng, d), 3 + d>> : rng \in OncallRanges, d \in days}

FullOncallSheet(year, month) ==
  LET marked == MarkedCells(year, month, 1..DaysInMonth(year, month))
  IN [cell \in {<<r, 1>> : r \in OncallRows} \cup marked |->
        IF cell[2] = 1 THEN StaffOf(cell[1]).emp_name ELSE <<"X">>]

NameCellVariant(r) ==
  CASE r % 4 = 0 -> StaffOf(r).emp_name
    [] r % 4 = 1 -> <<"D","r","."," ","N","o","b","o","d","y">>
    [] r % 4 = 2 -> <<"K","a","i","s","e","r",","," ","B","a","r","r","y">>
    [] OTHER     -> <<" "," ">>

MixedOncallSheet(year, month) ==
  LET marked == MarkedCells(year, month, {d \in 1..DaysInMonth(year, month) : d % 4 # 0})
      other == {<<rng[1], 3 + d>> : rng \in OncallRanges, d \in 1..DaysInMonth(year, month)} \ marked
  IN [cell \in {<<r, 1>> : r \in OncallRows} \cup marked \cup other |->
        IF cell[2] = 1 THEN NameCellVariant(cell[1])
        ELSE IF cell \in other THEN <<"V">>
        ELSE IF cell[2] % 2 = 0 THEN <<" ","x"," ">> ELSE <<"X">>]

RadiologyWorkbooks(scenario, year, month) ==
  [dept |-> "Radiology",
   work_sheet   |-> CASE scenario = "full"  -> FullWorkSheet(year, month)
                      [] scenario = "mixed" -> MixedWorkSheet(year, month)
                      [] OTHER              -> <<>>,
   oncall_sheet |-> CASE scenario = "full"  -> FullOncallSheet(year, month)
                      [] scenario = "mixed" -> MixedOncallSheet(year, month)
                      [] OTHER              -> <<>>]

(* The results of the three Cardiology readers: cardiology_data maps every  *)
(* day to its lists of (username, markers), cardiovascular_data maps every  *)
(* day to a list of (username, roles), interventional_data maps the days    *)
(* with a filled cell to a username; an unresolved employee is None.        *)

DayData(consultants, staff) == [consultants |-> consultants, staff |-> staff]

FullDayData ==
  DayData(<< <<"qulfi6e", <<"D">>>>, <<"salam0c", <<"X">>>> >>,
          << <<"purita5", <<"D">>>>, <<"konasje", <<"E">>>>, <<"bhenjt4", <<"N">>>> >>)

MixedDayData(d) ==
  CASE d % 5 = 0 -> DayData(<< <<None, <<"D">>>>, <<"salam0c", <<"X">>>> >>,
                            << <<None, <<"D">>>>, <<"purita5", <<"2C">>>>,
                               <<"konasje", <<"E">>>>, <<None, <<"N">>>> >>)
    [] d % 5 = 1 -> DayData(<<>>,
                            << <<"purita5", <<"D", "E">>>>, <<"bhenjt4", <<"N">>>> >>)
    [] d % 5 = 2 -> DayData(<< <<None, <<"D">>>> >>,
                            << <<"maskirt3", <<"D">>>> >>)
    [] d % 5 = 3 -> DayData(<< <<"mehndo4e", <<"X">>>>, <<"lipar45", <<"LD">>>> >>,
                            <<>>)
    [] OTHER     -> DayData(<< <<"qulfi6e", <<"D/A">>>>, <<"formi57r", <<"D">>>> >>,
                            << <<"vahard3g", <<"2C">>>>, <<None, <<"E">>>>,
                               <<"lukolnd", <<"N">>>> >>)

MixedTeamEight(d) ==
  CASE d % 4 = 0 -> <<>>
    [] d % 4 = 1 -> << <<"ghas4g", <<"84", "2001">>>> >>
    [] d % 4 = 2 -> << <<None, <<"84">>>>, <<"dosa0b", <<"2001">>>> >>
    [] OTHER     -> << <<"abherq", <<"84">>>>, <<None, <<"84", "2001">>>>,
                       <<"villfh", <<"84", "2001">>>> >>

CardiologyWorkbooks(scenario, year, month) ==
  LET days == 1..DaysInMonth(year, month)
  IN [dept |-> "Cardiology",
      cardiology_data |->
        [d \in days |-> CASE scenario = "full"  -> FullDayData
                          [] scenario = "mixed" -> MixedDayData(d)
                          [] OTHER              -> DayData(<<>>, <<>>)],
      interventional_data |->
        CASE scenario = "full"  -> [d \in days |-> "lipar45"]
          [] scenario = "mixed" -> [d \in {n \in days : n % 3 # 0} |->
                                      IF d % 3 = 1 THEN "mehndo4e" ELSE None]
          [] OTHER              -> <<>>,
      cardiovascular_data |->
        [d \in days |-> CASE scenario = "full"  -> << <<"ghas4g", <<"84", "2001">>>> >>
                          [] scenario = "mixed" -> MixedTeamEight(d)
                          [] OTHER              -> <<>>]]

-----------------------------------------------------------------------------
(* One block of a day: its registration, and its record and flag where an   *)
(* employee was resolved.                                                   *)

Block(team_name, team_id, day, start_time, end_time, source, employee, username, role, start_date, end_date, notes) ==
  [team_name |-> team_name, team_id |-> team_id, day |-> day,
   start_time |-> start_time, end_time |-> end_time, source |-> source,
   employee |-> employee, username |-> username, role |-> role,
   start_date |-> start_date, end_date |-> end_date, notes |-> notes]

\* the record appended without the registration being flagged
ProcessBlockUnmarked(entries, rows, b) ==
  LET registered == add_expected_entry(entries, b.team_name, b.day, b.start_time,
                                       b.end_time, b.source, b.employee)
  IN IF b.username # None
     THEN [expected_entries |-> registered,
           output_data |-> Append(rows,
             WithNotes(create_schedule_entry(b.username, b.team_id, b.start_date,
                         b.start_time, b.end_date, b.end_time, b.role), b.notes))]
     ELSE [expected_entries |-> registered, output_data |-> rows]

\* the block registered only where an employee was resolved
ProcessBlockResolvedOnly(entries, rows, b) ==
  IF b.username # None THEN ProcessBlockUnmarked(entries, rows, b)
  ELSE [expected_entries |-> entries, output_data |-> rows]

\* the record put at the head of the list instead of its end
ProcessBlockPrepended(entries, rows, b) ==
  LET registered == add_expected_entry(entries, b.team_name, b.day, b.start_time,
                                       b.end_time, b.source, b.employee)
  IN IF b.username # None
     THEN [expected_entries |->
             mark_entry_generated(registered, b.team_name, b.day, b.start_time, b.end_time),
           output_data |->
             <<WithNotes(create_schedule_entry(b.username, b.team_id, b.start_date,
                           b.start_time, b.end_date, b.end_time, b.role), b.notes)>> \o rows]
     ELSE [expected_entries |-> registered, output_data |-> rows]

\* add_expected_entry; then, with a username, create_schedule_entry,
\* append and mark_entry_generated
ProcessBlock(entries, rows, b) ==
  LET registered == add_expected_entry(entries, b.team_name, b.day, b.start_time,
                                       b.end_time, b.source, b.employee)
  IN IF b.username # None
     THEN [expected_entries |->
             mark_entry_generated(registered, b.team_name, b.day, b.start_time, b.end_time),
           output_data |-> Append(rows,
             WithNotes(create_schedule_entry(b.username, b.team_id, b.start_date,
                         b.start_time, b.end_date, b.end_time, b.role), b.notes))]
     ELSE [expected_entries |-> registered, output_data |-> rows]

\* a position of the loops: what is processed next
Item(kind, team, username, role) ==
  [kind |-> kind, team |-> team, username |-> username, role |-> role]

Optional(condition, item) == IF condition THEN <<item>> ELSE <<>>

-----------------------------------------------------------------------------
(* RadiologyConfig.extract_schedule_data                                    *)

RECURSIVE RadiologyTeamItems(_, _)
\* the blocks of the teams from team t on, in the order of the loops
RadiologyTeamItems(t, is_weekday_flag) ==
  IF t > Len(RadiologyTeams) THEN <<>>
  ELSE (IF is_weekday_flag
        THEN IF RadiologyTeams[t].name = "Gen_CT"
             THEN << Item("GenCTMorning", t, None, ""), Item("GenCTMidday", t, None, ""),
                     Item("GenCTOncall", t, None, "") >>
             ELSE << Item("TeamWork", t, None, ""), Item("TeamOncall", t, None, "") >>
        ELSE << Item("WeekendOncall", t, None, "") >>)
       \o RadiologyTeamItems(t + 1, is_weekday_flag)

RadiologyDayItems(year, month, day) ==
  RadiologyTeamItems(1, is_weekday(Date(year, month, day)))

\* self.employee_map[initials_to_empid[emp]]['emp_roles'][0]
RadiologyRole(username) ==
  EMPLOYEE_MAP[CHOOSE i \in Employees : EMPLOYEE_MAP[i].id = username].emp_roles[1]

\* emp and emp in initials_to_empid: the username the record carries
RadiologyUsername(emp) ==
  IF emp # <<>> /\ emp \in InitialsKeys THEN INITIALS_TO_USERNAME(emp) ELSE None

-----------------------------------------------------------------------------
(* CardiologyConfig._create_output_data                                     *)

Has(markers, m) == \E i \in DOMAIN markers : markers[i] = m

\* the first username of the list that is not None and has one of the
\* wanted markers
FirstUser(list, wanted) ==
  LET hits == {i \in DOMAIN list :
                 list[i][1] # None /\ \E m \in wanted : Has(list[i][2], m)}
  IN IF hits = {} THEN None
     ELSE list[CHOOSE i \in hits : \A j \in hits : i <= j][1]

\* the first username of the list that is not None
FirstValidUser(list) ==
  LET hits == {i \in DOMAIN list : list[i][1] # None}
  IN IF hits = {} THEN None
     ELSE list[CHOOSE i \in hits : \A j \in hits : i <= j][1]

\* the first of the three passes that finds a username
FirstOfThree(a, b, c) == IF a # None THEN a ELSE IF b # None THEN b ELSE c

\* the first consultant with a username, whatever the markers
weekday_consultant_unordered(consultants) == FirstValidUser(consultants)

weekday_consultant(consultants) ==
  FirstOfThree(FirstUser(consultants, {"D"}),
               FirstUser(consultants, {"LD", "DL", "D/A"}),
               FirstValidUser(consultants))

weekend_consultant(consultants) ==
  FirstOfThree(FirstUser(consultants, {"X"}),
               FirstUser(consultants, {"D"}),
               FirstValidUser(consultants))

\* day_call_username and has_day_assignment
day_call(staff) ==
  LET direct == FirstUser(staff, {"D"})
      marked == {i \in DOMAIN staff : Has(staff[i][2], "D") \/ Has(staff[i][2], "2C")}
      first == CHOOSE i \in marked : \A j \in marked : i <= j
  IN IF direct # None THEN [has |-> TRUE, username |-> direct]
     ELSE IF marked = {} THEN [has |-> FALSE, username |-> None]
     ELSE [has |-> TRUE,
           username |-> IF staff[first][1] # None /\ Has(staff[first][2], "2C")
                        THEN staff[first][1] ELSE None]

\* the flag set only where a username was found
marker_call_resolved(staff, m) ==
  [has |-> FirstUser(staff, {m}) # None, username |-> FirstUser(staff, {m})]

\* evening_call_username / night_call_username and their has_ flags
marker_call(staff, m) ==
  [has |-> \E i \in DOMAIN staff : Has(staff[i][2], m),
   username |-> FirstUser(staff, {m})]

RECURSIVE CardiovascularItems(_, _)
\* one position per (username, role) of the day, from pair i on
CardiovascularItems(pairs, i) ==
  IF i > Len(pairs) THEN <<>>
  ELSE [j \in DOMAIN pairs[i][2] |-> Item("Cardiovascular", "Cardiovascular",
                                          pairs[i][1], pairs[i][2][j])]
       \o CardiovascularItems(pairs, i + 1)

CardiologyDayItems(wb, year, month, day) ==
  LET day_data == wb.cardiology_data[day]
      cardiology ==
        IF day \notin DOMAIN wb.cardiology_data THEN <<>>
        ELSE IF is_weekday(Date(year, month, day))
        THEN Optional(day_data.consultants # <<>>, Item("WeekdayConsultant", "Cardiology", None, ""))
             \o Optional(day_call(day_data.staff).has, Item("WeekdayDayCall", "Cardiology", None, ""))
             \o Optional(marker_call(day_data.staff, "E").has, Item("WeekdayEvening", "Cardiology", None, ""))
             \o Optional(marker_call(day_data.staff, "N").has, Item("WeekdayNight", "Cardiology", None, ""))
        ELSE Optional(day_data.consultants # <<>>, Item("WeekendConsultant", "Cardiology", None, ""))
             \o Optional(day_call(day_data.staff).has, Item("WeekendDayCall", "Cardiology", None, ""))
             \o Optional(marker_call(day_data.staff, "N").has, Item("WeekendNight", "Cardiology", None, ""))
  IN cardiology
     \o Optional(day \in DOMAIN wb.interventional_data,
                 Item("Interventional", "Interventional Cardiologist", None, ""))
     \o (IF day \in DOMAIN wb.cardiovascular_data
         THEN CardiovascularItems(wb.cardiovascular_data[day], 1) ELSE <<>>)

-----------------------------------------------------------------------------
(* The run: for day in range(1, days_in_month + 1), block by block.         *)

DayItems(wb, year, month, day) ==
  IF wb.dept = "Radiology" THEN RadiologyDayItems(year, month, day)
  ELSE CardiologyDayItems(wb, year, month, day)

RECURSIVE FirstDayFrom(_, _, _, _)
\* the first day from day on that has a block, or 0
FirstDayFrom(wb, year, month, day) ==
  IF day > DaysInMonth(year, month) THEN 0
  ELSE IF DayItems(wb, year, month, day) # <<>> THEN day
  ELSE FirstDayFrom(wb, year, month, day + 1)

StartRun(dept, scenario, year, month, wb) ==
  LET first == FirstDayFrom(wb, year, month, 1)
  IN [dept |-> dept, scenario |-> scenario, year |-> year, month |-> month,
      day |-> first, pos |-> 1, phase |-> IF first = 0 THEN "done" ELSE "run"]

Advance(r) ==
  IF r.pos < Len(DayItems(workbooks, r.year, r.month, r.day))
  THEN [r EXCEPT !.pos = r.pos + 1]
  ELSE LET following == FirstDayFrom(workbooks, r.year, r.month, r.day + 1)
       IN IF following = 0 THEN [r EXCEPT !.phase = "done"]
          ELSE [r EXCEPT !.day = following, !.pos = 1]

Running == run.dept \in Departments /\ run.phase = "run"

CurrentItem == DayItems(workbooks, run.year, run.month, run.day)[run.pos]

At(kind) == Running /\ CurrentItem.kind = kind

current_date == Date(run.year, run.month, run.day)

next_date == NextDate(current_date)

Init ==
  /\ \E dept \in Departments, scenario \in Scenarios, ym \in RunMonths :
       LET wb == IF dept = "Radiology"
                 THEN RadiologyWorkbooks(scenario, ym[1], ym[2])
                 ELSE CardiologyWorkbooks(scenario, ym[1], ym[2])
       IN /\ workbooks = wb
          /\ run = StartRun(dept, scenario, ym[1], ym[2], wb)
  /\ expected_entries = <<>>
  /\ unknown_names = {}
  /\ unknown_initials = {}
  /\ output_data = <<>>
  /\ call = NoCall
  /\ log = <<>>
  /\ date = NoDate
  /\ dow = 0
  /\ weekday_flag = FALSE

\* the block is processed and the loops move to the next block
Process(b) ==
  LET after == ProcessBlock(expected_entries, output_data, b)
  IN /\ expected_entries' = after.expected_entries
     /\ output_data' = after.output_data
     /\ run' = Advance(run)
     /\ UNCHANGED <<workbooks, call, log, calendarVars>>

\* a block read from the work grid whose record ends on the next date
WorkBlockEndingNextDay(team, col_letter, start_time, end_time) ==
  LET found == get_employee_from_work_schedule(workbooks.work_sheet, run.day,
                                               col_letter, unknown_initials)
      username == RadiologyUsername(found.ret)
  IN /\ unknown_initials' = found.unknown_initials
     /\ UNCHANGED unknown_names
     /\ Process(Block(team.name, team.team_id, run.day, start_time, end_time, "work",
                      found.ret, username,
                      IF username # None THEN RadiologyRole(username) ELSE "",
                      current_date, next_date, ""))

\* a block read from the work grid, ending on the same date
WorkBlock(team, col_letter, start_time, end_time) ==
  LET found == get_employee_from_work_schedule(workbooks.work_sheet, run.day,
                                               col_letter, unknown_initials)
      username == RadiologyUsername(found.ret)
  IN /\ unknown_initials' = found.unknown_initials
     /\ UNCHANGED unknown_names
     /\ Process(Block(team.name, team.team_id, run.day, start_time, end_time, "work",
                      found.ret, username,
                      IF username # None THEN RadiologyRole(username) ELSE "",
                      current_date, current_date, ""))

\* a block read from the on-call grid, ending on the next date
OncallBlock(team, start_time, end_time) ==
  LET found == get_employee_from_oncall_schedule(workbooks.oncall_sheet, run.day,
                 team.oncall_rows[1], team.oncall_rows[2], unknown_names)
      username == RadiologyUsername(found.ret)
  IN /\ unknown_names' = found.unknown_names
     /\ UNCHANGED unknown_initials
     /\ Process(Block(team.name, team.team_id, run.day, start_time, end_time, "oncall",
                      found.ret, username,
                      IF username # None THEN RadiologyRole(username) ELSE "",
                      current_date, next_date, ""))

GenCTMorning ==
  /\ At("GenCTMorning")
  /\ WorkBlock(RadiologyTeams[CurrentItem.team], RadiologyTeams[CurrentItem.team].work_cols[1],
               "700", "1100")

GenCTMidday ==
  /\ At("GenCTMidday")
  /\ WorkBlock(RadiologyTeams[CurrentItem.team], RadiologyTeams[CurrentItem.team].work_cols[2],
               "1100", "1530")

GenCTOncall ==
  /\ At("GenCTOncall")
  /\ OncallBlock(RadiologyTeams[CurrentItem.team], "1530", "700")

TeamWork ==
  /\ At("TeamWork")
  /\ WorkBlock(RadiologyTeams[CurrentItem.team], RadiologyTeams[CurrentItem.team].work_cols[1],
               "700", "1530")

TeamOncall ==
  /\ At("TeamOncall")
  /\ OncallBlock(RadiologyTeams[CurrentItem.team], "1530", "700")

WeekendOncall ==
  /\ At("WeekendOncall")
  /\ OncallBlock(RadiologyTeams[CurrentItem.team], "700", "700")

\* a block of team 123, 94 or 8: registered without an employee, the
\* record ending on next_date
CardiologyBlock(team_name, team_id, start_time, end_time, source, username, role, notes) ==
  /\ Process(Block(team_name, team_id, run.day, start_time, end_time, source, None,
                   username, role, current_date, next_date, notes))
  /\ UNCHANGED <<unknown_names, unknown_initials>>

TodayData == workbooks.cardiology_data[run.day]

WeekdayConsultant ==
  /\ At("WeekdayConsultant")
  /\ CardiologyBlock("Cardiology", "123", "700", "1600", "Team123",
                     weekday_consultant(TodayData.consultants), "3042457", "2nd Day Call")

WeekdayDayCall ==
  /\ At("WeekdayDayCall")
  /\ LET username == day_call(TodayData.staff).username
     IN CardiologyBlock("Cardiology", "123", "700", "1600", "Team123",
                        username, get_employee_role(username), "1st Day Call")

WeekdayEvening ==
  /\ At("WeekdayEvening")
  /\ LET username == marker_call(TodayData.staff, "E").username
     IN CardiologyBlock("Cardiology", "123", "1600", "1900", "Team123",
                        username, get_employee_role(username), "Evening Call")

WeekdayNight ==
  /\ At("WeekdayNight")
  /\ LET username == marker_call(TodayData.staff, "N").username
     IN CardiologyBlock("Cardiology", "123", "1900", "700", "Team123",
                        username, get_employee_role(username), "Night Call")

WeekendConsultant ==
  /\ At("WeekendConsultant")
  /\ CardiologyBlock("Cardiology", "123", "700", "1900", "Team123",
                     weekend_consultant(TodayData.consultants), "3042457",
                     "2nd Weekend Day Call")

WeekendDayCall ==
  /\ At("WeekendDayCall")
  /\ LET username == day_call(TodayData.staff).username
     IN CardiologyBlock("Cardiology", "123", "700", "1900", "Team123",
                        username, get_employee_role(username), "1st Weekend Day Call")

WeekendNight ==
  /\ At("WeekendNight")
  /\ LET username == marker_call(TodayData.staff, "N").username
     IN CardiologyBlock("Cardiology", "123", "1900", "700", "Team123",
                        username, get_employee_role(username), "Night Call")

Interventional ==
  /\ At("Interventional")
  /\ LET username == workbooks.interventional_data[run.day]
     IN CardiologyBlock("Interventional Cardiologist", "94",
                        IF is_weekday(current_date) THEN "1600" ELSE "700", "700",
                        "Team94", username, get_employee_role(username), "On Call")

Cardiovascular ==
  /\ At("Cardiovascular")
  /\ CardiologyBlock("Cardiovascular", "8", "700", "700", "Team8",
                     CurrentItem.username, CurrentItem.role, "")

Next ==
  \/ GenCTMorning
  \/ GenCTMidday
  \/ GenCTOncall
  \/ TeamWork
  \/ TeamOncall
  \/ WeekendOncall
  \/ WeekdayConsultant
  \/ WeekdayDayCall
  \/ WeekdayEvening
  \/ WeekdayNight
  \/ WeekendConsultant
  \/ WeekendDayCall
  \/ WeekendNight
  \/ Interventional
  \/ Cardiovascular

Spec == Init /\ [][Next]_vars

-----------------------------------------------------------------------------
(* Claims about the extraction runs.                                        *)

\* the team name a record's team identifier stands for
TeamNameOf(team_id) ==
  CASE team_id = "114" -> "Gen_CT"
    [] team_id = "115" -> "IRA"
    [] team_id = "116" -> "MRI"
    [] team_id = "126" -> "US"
    [] team_id = "127" -> "Fluoro"
    [] team_id = "123" -> "Cardiology"
    [] team_id = "94"  -> "Interventional Cardiologist"
    [] team_id = "8"   -> "Cardiovascular"

\* whether a registration and a record agree on team, day, start and end
SameBlock(entry, record) ==
  /\ entry.team = TeamNameOf(record.TEAM)
  /\ record.STARTDATE = strftime(Date(run.year, run.month, entry.day))
  /\ entry.start_time = record.STARTTIME
  /\ entry.end_time = record.ENDTIME

FlaggedEntries == SelectSeq(expected_entries, LAMBDA entry : entry.generated)

(* C1: in a Radiology or Cardiology run, after every block and at the end,  *)
(* the records emitted are at most as many as the blocks registered, the    *)
(* registrations flagged generated are exactly as many as the records, and  *)
(* each flagged registration has the team, day, start time and end time of  *)
(* a record of its own: the i-th flagged registration, in the order of      *)
(* registration, agrees with the i-th record.                               *)
C1_FlaggedBlocksAreRecords ==
  run.dept \in Departments =>
    /\ Len(output_data) <= Len(expected_entries)
    /\ Len(FlaggedEntries) = Len(output_data)
    /\ \A i \in DOMAIN FlaggedEntries : SameBlock(FlaggedEntries[i], output_data[i])

\* a Cardiology run has ended with records emitted and with two
\* registrations of one team, day, start and end of which the earlier is
\* flagged and the later is not
C1_Witness ==
  /\ run.dept = "Cardiology"
  /\ run.phase = "done"
  /\ output_data # <<>>
  /\ \E i, j \in DOMAIN expected_entries :
       /\ i < j
       /\ SameKey(expected_entries[j], expected_entries[i].team, expected_entries[i].day,
                  expected_entries[i].start_time, expected_entries[i].end_time)
       /\ expected_entries[i].generated
       /\ ~expected_entries[j].generated

\* a time written as hours and minutes without a leading zero
TimeOfDay(time) ==
  CASE time = "700"  -> 700
    [] time = "1100" -> 1100
    [] time = "1530" -> 1530
    [] time = "1600" -> 1600
    [] time = "1900" -> 1900

\* the date a month/day/year text stands for
DateOf(text) ==
  LET parts == Split(text, "/")
  IN Date(ParseInt(parts[3]), ParseInt(parts[1]), ParseInt(parts[2]))

StartsLaterThanItEnds(record) == TimeOfDay(record.STARTTIME) > TimeOfDay(record.ENDTIME)

(* C9: every record of a Radiology or Cardiology run whose start time is    *)
(* later in the day than its end time ends on the calendar day after the    *)
(* day it starts on, whatever the kind of day and also where the next day   *)
(* is in another month or year.                                             *)
C9_OvernightEndsNextDay ==
  run.dept \in Departments =>
    \A i \in DOMAIN output_data :
      StartsLaterThanItEnds(output_data[i]) =>
        toordinal(DateOf(output_data[i].ENDDATE))
          = toordinal(DateOf(output_data[i].STARTDATE)) + 1

\* an overnight record starts on 31 December 2024 and ends on 1 January 2025
C9_Witness ==
  \E i \in DOMAIN output_data :
    /\ StartsLaterThanItEnds(output_data[i])
    /\ output_data[i].STARTDATE = <<"1","2","/","3","1","/","2","0","2","4">>
    /\ output_data[i].ENDDATE = <<"0","1","/","0","1","/","2","0","2","5">>

\* the Radiology run over the fully populated grids of February 2024 has ended
LeapFebruaryDone ==
  /\ run.dept = "Radiology"
  /\ run.scenario = "full"
  /\ run.year = 2024
  /\ run.month = 2
  /\ run.phase = "done"

\* the teams with the two-block week-day pattern
TwoBlockTeams ==
  {t \in DOMAIN RadiologyTeams : Len(RadiologyTeams[t].work_cols) = 1}

RecordsOf(team_id, start_time, end_time) ==
  Cardinality({i \in DOMAIN output_data :
                 /\ output_data[i].TEAM = team_id
                 /\ output_data[i].STARTTIME = start_time
                 /\ output_data[i].ENDTIME = end_time})

RecordsOfTeam(team_id) ==
  Cardinality({i \in DOMAIN output_data : output_data[i].TEAM = team_id})

UnsatisfiedOf(team_name) ==
  Cardinality({i \in DOMAIN expected_entries :
                 /\ expected_entries[i].team = team_name
                 /\ ~expected_entries[i].generated})

(* C10: for February 2024 a Radiology team with the two-block week-day      *)
(* pattern whose grids are fully populated with resolvable employees yields *)
(* two records for each of the 21 days from Sunday to Thursday and one      *)
(* 0700-0700 record for each of the 8 Fridays and Saturdays, 50 records in  *)
(* all, and no unsatisfied expected block.                                  *)
C10_LeapFebruaryYieldsFifty ==
  LeapFebruaryDone =>
    \A t \in TwoBlockTeams :
      /\ RecordsOf(RadiologyTeams[t].team_id, "700", "1530") = 21
      /\ RecordsOf(RadiologyTeams[t].team_id, "1530", "700") = 21
      /\ RecordsOf(RadiologyTeams[t].team_id, "700", "700") = 8
      /\ RecordsOfTeam(RadiologyTeams[t].team_id) = 50
      /\ UnsatisfiedOf(RadiologyTeams[t].name) = 0

\* the run has ended with 50 records for team IRA, one of them the single
\* record of Friday 2 February
C10_Witness ==
  /\ LeapFebruaryDone
  /\ RecordsOfTeam("115") = 50
  /\ \E i \in DOMAIN output_data :
       /\ output_data[i].TEAM = "115"
       /\ output_data[i].STARTDATE = <<"0","2","/","0","2","/","2","0","2","4">>
       /\ output_data[i].STARTTIME = "700"
       /\ output_data[i].ENDTIME = "700"

\* C10 as stated: 2 x 29 = 58 records for the team and no unsatisfied block
C10_LeapFebruaryYieldsFiftyEight ==
  LeapFebruaryDone =>
    \A t \in TwoBlockTeams :
      /\ RecordsOfTeam(RadiologyTeams[t].team_id) = 2 * 29
      /\ UnsatisfiedOf(RadiologyTeams[t].name) = 0

-----------------------------------------------------------------------------
(* The work-grid lookup on one combined cell: a sheet whose only row holds  *)
(* day 1 and, in Gen_CT's first column, readers separated by '/'.           *)

MaxReaders == 3

ReaderTexts == {<<"M","F">>, <<"m","m">>, <<"Z","Z">>, <<"Q","Q">>, <<"T","E","L","E">>, <<" ","M","F"," ">>, <<>>}

RECURSIVE ReaderLists(_)
ReaderLists(n) ==
  IF n = 0 THEN {<<>>}
  ELSE {Append(list, text) : list \in ReaderLists(n - 1), text \in ReaderTexts}

RECURSIVE JoinReaders(_)
\* '/'.join(list)
JoinReaders(list) ==
  IF Len(list) = 1 THEN list[1]
  ELSE list[1] \o <<"/">> \o JoinReaders(Tail(list))

CombinedCells ==
  {JoinReaders(list) : list \in UNION {ReaderLists(n) : n \in 2..MaxReaders}}

OneRowSheet(cell) ==
  [pos \in {<<WorkRows[1], 1>>, <<WorkRows[1], col_letter_to_index(<<"H">>)>>} |->
     IF pos[2] = 1 THEN <<"1">> ELSE cell]

InitCombined ==
  /\ \E cell \in CombinedCells :
       workbooks = [dept |-> "Radiology", work_sheet |-> OneRowSheet(cell),
                    oncall_sheet |-> <<>>]
  /\ expected_entries = <<>>
  /\ unknown_names = {}
  /\ unknown_initials = {}
  /\ output_data = <<>>
  /\ run = NoRun
  /\ call = NoCall
  /\ log = <<>>
  /\ date = NoDate
  /\ dow = 0
  /\ weekday_flag = FALSE

\* self._get_employee_from_work_schedule(ws_work, 1, 'H')
LookupCombined ==
  /\ call = NoCall
  /\ LET found == get_employee_from_work_schedule(workbooks.work_sheet, 1, <<"H">>,
                                                  unknown_initials)
     IN /\ call' = [op |-> "work", ret |-> found.ret]
        /\ unknown_initials' = found.unknown_initials
  /\ UNCHANGED <<expected_entries, unknown_names, output_data, workbooks, run, log,
                 calendarVars>>

SpecCombined == InitCombined /\ [][LookupCombined]_vars

\* the cell looked up, and its tokens: upper-cased, trimmed, non-empty
CombinedCell == workbooks.work_sheet[<<WorkRows[1], col_letter_to_index(<<"H">>)>>]

CellTokens ==
  LET fields == Split(Upper(Strip(CombinedCell)), "/")
  IN {Strip(fields[i]) : i \in DOMAIN fields} \ {<<>>}

ResolvingTokens == {token \in CellTokens : token # <<"T","E","L","E">> /\ token \in InitialsKeys}

(* C11: for a combined cell in which a token other than 'TELE' resolves to  *)
(* an employee of the directory the lookup returns a resolving token other  *)
(* than 'TELE'; for 'MF/TELE' it returns 'MF' and adds nothing to the       *)
(* unresolved sets; 'TELE' is returned only when no other token resolves.   *)
C11_TeleOnlyAsFallback ==
  call.op = "work" =>
    /\ ResolvingTokens # {} => call.ret \in ResolvingTokens
    /\ CombinedCell = <<"M","F","/","T","E","L","E">> =>
         call.ret = <<"M","F">> /\ unknown_initials = {} /\ unknown_names = {}
    /\ call.ret = <<"T","E","L","E">> => ResolvingTokens = {}

\* the cell 'MF/TELE' has been looked up and gave 'MF' with nothing recorded
C11_Witness ==
  /\ call.op = "work"
  /\ CombinedCell = <<"M","F","/","T","E","L","E">>
  /\ call.ret = <<"M","F">>
  /\ unknown_initials = {}

-----------------------------------------------------------------------------
(* CardiologyConfig._parse_day_abbreviations and the reading of one cell    *)
(* of the consultant and staff rows.                                        *)

RECURSIVE SplitWords(_)
\* str.split(): the runs of characters between whitespace
SplitWords(s) ==
  LET text == {i \in DOMAIN s : s[i] \notin Whitespace}
      first == CHOOSE i \in text : \A j \in text : i <= j
      gaps == {i \in DOMAIN s : i > first /\ s[i] \in Whitespace}
      stop == IF gaps = {} THEN Len(s) + 1
              ELSE CHOOSE i \in gaps : \A j \in gaps : i <= j
  IN IF text = {} THEN <<>>
     ELSE <<SubSeq(s, first, stop - 1)>> \o SplitWords(SubSeq(s, stop, Len(s)))

\* the markers one part contributes with only the staff branch consulted
PartMarkersStaffOnly(part, is_staff) ==
  IF ~is_staff THEN (IF part = <<"D">> THEN <<"D">> ELSE <<>>)
  ELSE IF part = <<"2","C">> THEN <<"2C">>
  ELSE IF part = <<"N">> THEN <<"N">>
  ELSE IF part \in {<<"E">>, <<"C","E">>, <<"2","B","E">>} THEN <<"E">>
  ELSE <<>>

\* the markers one part contributes: the if / elif chain of the loop
PartMarkers(part, is_staff) ==
  IF part = <<"D">> THEN <<"D">>
  ELSE IF part = <<"L","D">> THEN <<"LD">>
  ELSE IF part = <<"D","L">> THEN <<"DL">>
  ELSE IF part = <<"D","/","A">> THEN <<"D/A">>
  ELSE IF part = <<"X">> THEN <<"X">>
  ELSE IF ~is_staff THEN <<>>
  ELSE IF part = <<"2","C">> THEN <<"2C">>
  ELSE IF part = <<"N">> THEN <<"N">>
  ELSE IF part \in {<<"E">>, <<"C","E">>, <<"2","B","E">>} THEN <<"E">>
  ELSE <<>>

RECURSIVE PartsMarkers(_, _)
PartsMarkers(parts, is_staff) ==
  IF parts = <<>> THEN <<>>
  ELSE PartMarkers(Strip(parts[1]), is_staff) \o PartsMarkers(Tail(parts), is_staff)

\* the parser with the combined marker looked for in the words after the split
parse_day_abbreviations_words_only(cell_value, is_staff) ==
  IF cell_value = <<>> THEN <<>>
  ELSE PartsMarkers(SplitWords(Replace(Upper(Strip(cell_value)), <<"\n">>, <<" ">>)), is_staff)

\* the list of markers found in a cell
parse_day_abbreviations(cell_value, is_staff) ==
  LET cell_str == Replace(Upper(Strip(cell_value)), <<"\n">>, <<" ">>)
  IN IF cell_value = <<>> THEN <<>>
     ELSE IF is_staff /\ (Contains(cell_str, <<"2","C","/","E">>) \/ Contains(cell_str, <<"2","C","E">>))
     THEN <<"D", "E">>
     ELSE PartsMarkers(SplitWords(cell_str), is_staff)

\* what the loops over the cells carry: the day's list so far and the
\* tracker's two sets
Reading(list, names, initials) ==
  [list |-> list, unknown_names |-> names, unknown_initials |-> initials]

\* the tracker's sets after a lookup, with the list as it is
Recorded(list, found) ==
  Reading(list, found.unknown_names, found.unknown_initials)

\* (username, markers) appended to the list, the username resolved or None
WithEntry(list, found, markers) ==
  Reading(Append(list, <<found.ret, markers>>), found.unknown_names, found.unknown_initials)

\* if markers: consultants.append(...), the name looked up before
ConsultantEntry(list, found, markers) ==
  IF markers # <<>> THEN WithEntry(list, found, markers) ELSE Recorded(list, found)

\* one cell of a consultant row: the name is resolved, then the markers parsed
read_consultant_cell(attending_sheet, row, col_idx, name_col, acc) ==
  LET cell_value == Cell(attending_sheet, row, col_idx)
      emp_name == Cell(attending_sheet, row, name_col)
  IN IF cell_value = <<>> \/ emp_name = <<>> THEN acc
     ELSE ConsultantEntry(acc.list,
                          find_username_by_identifier(emp_name, acc.unknown_names,
                                                      acc.unknown_initials),
                          parse_day_abbreviations(cell_value, FALSE))

\* if markers and emp_name: the name is looked up and the entry appended
StaffEntry(acc, emp_name, markers) ==
  IF markers = <<>> \/ emp_name = <<>> THEN acc
  ELSE WithEntry(acc.list,
                 find_username_by_identifier(emp_name, acc.unknown_names,
                                             acc.unknown_initials),
                 markers)

\* one cell of a staff row: the markers are parsed, then the name resolved
read_staff_cell(sp_sheet, row, col_idx, name_col, acc) ==
  IF Cell(sp_sheet, row, col_idx) = <<>> THEN acc
  ELSE StaffEntry(acc, Cell(sp_sheet, row, name_col),
                  parse_day_abbreviations(Cell(sp_sheet, row, col_idx), TRUE))

-----------------------------------------------------------------------------
(* One cell of a consultant row read on its own: the row's name in column B *)
(* and the cell of day 1 in column D.                                       *)

RowNames == {<<"Q","u","r","e","s","h","i">>, <<"q">>, <<"D","r","."," ","N","o","b","o","d","y">>, <<"Z","Z">>, <<>>}

MarkerTokens ==
  {<<"D">>, <<"L","D">>, <<"D","L">>, <<"D","/","A">>, <<"X">>, <<"2","C">>, <<"N">>, <<"E">>, <<"C","E">>, <<"2","B","E">>,
   <<"2","C","/","E">>, <<"2","C","E">>, <<"v","a","c","a","t","i","o","n">>, <<"d">>, <<"x">>}

ConsultantCells == MarkerTokens \cup {<<" ","D"," ">>, <<"o","n"," ","v","a","c","a","t","i","o","n">>, <<"L","D"," ","X">>, <<>>}

ConsultantRow == 6

NameColumn == col_letter_to_index(<<"B">>)

FirstDayColumn == col_letter_to_index(<<"D">>)

OneCellSheet(name, cell) ==
  [pos \in {<<ConsultantRow, NameColumn>>, <<ConsultantRow, FirstDayColumn>>} |->
     IF pos[2] = NameColumn THEN name ELSE cell]

InitConsultantCell ==
  /\ \E name \in RowNames, cell \in ConsultantCells :
       workbooks = [dept |-> "Cardiology", ws_attending |-> OneCellSheet(name, cell)]
  /\ expected_entries = <<>>
  /\ unknown_names = {}
  /\ unknown_initials = {}
  /\ output_data = <<>>
  /\ run = NoRun
  /\ call = NoCall
  /\ log = <<>>
  /\ date = NoDate
  /\ dow = 0
  /\ weekday_flag = FALSE

\* the body of the loop over the consultant rows, for one cell
ReadConsultantCell ==
  /\ call = NoCall
  /\ LET after == read_consultant_cell(workbooks.ws_attending, ConsultantRow,
                    FirstDayColumn, NameColumn, Reading(<<>>, unknown_names, unknown_initials))
     IN /\ call' = [op |-> "consultant", list |-> after.list]
        /\ unknown_names' = after.unknown_names
        /\ unknown_initials' = after.unknown_initials
  /\ UNCHANGED <<expected_entries, output_data, workbooks, run, log, calendarVars>>

SpecConsultantCell == InitConsultantCell /\ [][ReadConsultantCell]_vars

ConsultantCell == Cell(workbooks.ws_attending, ConsultantRow, FirstDayColumn)

ConsultantName == Cell(workbooks.ws_attending, ConsultantRow, NameColumn)

(* C12: a consultant cell whose text holds no recognised marker adds no     *)
(* assignment for the day and adds nothing to the unresolved names or the   *)
(* unresolved initials, whatever the name column of its row holds.          *)
C12_UnrecognisedCellAddsNothing ==
  (call.op = "consultant" /\ parse_day_abbreviations(ConsultantCell, FALSE) = <<>>) =>
    /\ call.list = <<>>
    /\ unknown_names = {}
    /\ unknown_initials = {}

\* the cell 'vacation' of the row named 'Dr. Nobody' has been read: no
\* assignment was added and the name was recorded as unresolved
C12_Witness ==
  /\ call.op = "consultant"
  /\ ConsultantCell = <<"v","a","c","a","t","i","o","n">>
  /\ ConsultantName = <<"D","r","."," ","N","o","b","o","d","y">>
  /\ call.list = <<>>
  /\ unknown_names = {<<"D","r","."," ","N","o","b","o","d","y">>}

-----------------------------------------------------------------------------
(* Claims about the time blocks of the records.                             *)

\* a date and time of day as one number: days, then hours and minutes
Instant(date_text, time) == toordinal(DateOf(date_text)) * 2400 + TimeOfDay(time)

\* whether the intervals two records cover have a moment in common
Overlap(a, b) ==
  /\ Instant(a.STARTDATE, a.STARTTIME) < Instant(b.ENDDATE, b.ENDTIME)
  /\ Instant(b.STARTDATE, b.STARTTIME) < Instant(a.ENDDATE, a.ENDTIME)

\* no two records of the list for one team and one start date overlap
NoOverlapWithinTeamAndDay ==
  \A i, j \in DOMAIN output_data :
    (/\ i < j
     /\ output_data[i].TEAM = output_data[j].TEAM
     /\ output_data[i].STARTDATE = output_data[j].STARTDATE)
      => ~Overlap(output_data[i], output_data[j])

(* C13, for Radiology: the records a Radiology run returns for one team and *)
(* one calendar day are non-overlapping time blocks: no two records of the  *)
(* same team with the same start date cover intervals that overlap.         *)
C13_RadiologyBlocksDoNotOverlap ==
  (run.dept = "Radiology" /\ run.phase = "done") => NoOverlapWithinTeamAndDay

\* a Radiology run has ended with the three Gen_CT records of Thursday
\* 1 February 2024, each starting when the one before ends
C13_Witness ==
  /\ run.dept = "Radiology"
  /\ run.phase = "done"
  /\ \E i \in DOMAIN output_data :
       /\ i + 2 \in DOMAIN output_data
       /\ \A k \in {i, i + 1, i + 2} :
            output_data[k].TEAM = "114" /\ output_data[k].STARTDATE = <<"0","2","/","0","1","/","2","0","2","4">>
       /\ output_data[i].ENDTIME = output_data[i + 1].STARTTIME
       /\ output_data[i + 1].ENDTIME = output_data[i + 2].STARTTIME

\* C13 as stated, for the records of every run
C13_BlocksDoNotOverlap ==
  (run.dept \in Departments /\ run.phase = "done") => NoOverlapWithinTeamAndDay

-----------------------------------------------------------------------------
(* CardiologyConfig: the team table and the three readers.                  *)

\* config['teams'] with the default rows
CardiologyTeams ==
  [Cardiovascular |-> [team_id |-> "8", data_rows |-> <<12, 16>>,
                       first_col |-> <<"C">>, last_col |-> <<"A","G">>],
   Interventional |-> [team_id |-> "94", data_row |-> 29,
                       first_col |-> <<"D">>, last_col |-> <<"A","H">>],
   Cardiology     |-> [team_id |-> "123", consultant_rows |-> <<ConsultantRow, 11>>,
                       staff_rows |-> <<6, 13>>,
                       attending_name_col |-> <<"B">>, sp_name_col |-> <<"B">>,
                       first_col |-> <<"D">>, last_col |-> <<"A","H">>]]

\* MARKER_TO_ROLES: the keys, and the roles of a key
RoleMarkers == {<<"X">>, <<"X","A">>, <<"X","P">>}

\* every marker taken for the adult role alone
MARKER_TO_ROLES_adult_only(cell_str) == <<"84">>

MARKER_TO_ROLES(cell_str) ==
  IF cell_str = <<"X">> THEN <<"84", "2001">>
  ELSE IF cell_str = <<"X","A">> THEN <<"84">>
  ELSE <<"2001">>

\* one cell of a Team 8 row: a valid marker, then the name of column B
read_cardiovascular_cell(ws, row, col_idx, name_col, acc) ==
  LET cell_value == Cell(ws, row, col_idx)
      emp_cell == Cell(ws, row, name_col)
  IN IF cell_value = <<>> \/ Upper(Strip(cell_value)) \notin RoleMarkers \/ emp_cell = <<>>
     THEN acc
     ELSE WithEntry(acc.list,
                    find_username_by_identifier(emp_cell, acc.unknown_names,
                                                acc.unknown_initials),
                    MARKER_TO_ROLES(Upper(Strip(cell_value))))

\* the body of a loop over rows, for the rows of Team 8, of the consultants
\* or of the staff
ReadCell(ws, kind, row, col_idx, acc) ==
  IF kind = "team8" THEN read_cardiovascular_cell(ws, row, col_idx, 2, acc)
  ELSE IF kind = "consultants"
  THEN read_consultant_cell(ws, row, col_idx,
                            col_letter_to_index(CardiologyTeams.Cardiology.attending_name_col), acc)
  ELSE read_staff_cell(ws, row, col_idx,
                       col_letter_to_index(CardiologyTeams.Cardiology.sp_name_col), acc)

RECURSIVE ReadRows(_, _, _, _, _, _)
\* for row in range(row_start, row_end + 1), from row on
ReadRows(ws, kind, row, row_end, col_idx, acc) ==
  IF row > row_end THEN acc
  ELSE ReadRows(ws, kind, row + 1, row_end, col_idx, ReadCell(ws, kind, row, col_idx, acc))

\* what the loops over the days carry: the lists of the days read so far
\* and the tracker's two sets
DaysRead(days, names, initials) ==
  [days |-> days, unknown_names |-> names, unknown_initials |-> initials]

\* the list of a day appended to the days read so far
AfterDay(days, read) ==
  DaysRead(Append(days, read.list), read.unknown_names, read.unknown_initials)

RECURSIVE ReadDaysPastLastColumn(_, _, _, _, _, _, _)
\* the loop over the days without the break past the last column
ReadDaysPastLastColumn(ws, kind, rows, first_col_idx, last_col_idx, days_in_month, acc) ==
  IF Len(acc.days) + 1 > days_in_month THEN acc
  ELSE ReadDaysPastLastColumn(ws, kind, rows, first_col_idx, last_col_idx, days_in_month,
         AfterDay(acc.days,
                  ReadRows(ws, kind, rows[1], rows[2], first_col_idx + Len(acc.days),
                           Reading(<<>>, acc.unknown_names, acc.unknown_initials))))

RECURSIVE ReadDays(_, _, _, _, _, _, _)
\* for day in range(1, days_in_month + 1), with the break past the last
\* column; the day to read is the one after the days read so far
ReadDays(ws, kind, rows, first_col_idx, last_col_idx, days_in_month, acc) ==
  IF Len(acc.days) + 1 > days_in_month \/ first_col_idx + Len(acc.days) > last_col_idx
  THEN acc
  ELSE ReadDays(ws, kind, rows, first_col_idx, last_col_idx, days_in_month,
                AfterDay(acc.days,
                         ReadRows(ws, kind, rows[1], rows[2], first_col_idx + Len(acc.days),
                                  Reading(<<>>, acc.unknown_names, acc.unknown_initials))))

\* assignments: for every day read the list of (username, roles)
read_cardiovascular_data(ws, config, month_num, year, names, initials) ==
  ReadDays(ws, "team8", config.data_rows, col_letter_to_index(config.first_col),
           col_letter_to_index(config.last_col), DaysInMonth(year, month_num),
           DaysRead(<<>>, names, initials))

\* what the loop of the Team 94 reader carries
Assigned(assignments, names, initials) ==
  [assignments |-> assignments, unknown_names |-> names, unknown_initials |-> initials]

\* what the loop of the Team 94 reader carries: the day to read next, the
\* assignments so far and the tracker's two sets
DayReached(day, assignments, names, initials) ==
  [day |-> day, assignments |-> assignments,
   unknown_names |-> names, unknown_initials |-> initials]

\* assignments[day] = username, resolved or None
AssignedDay(day, assignments, found) ==
  DayReached(day + 1, (day :> found.ret) @@ assignments,
             found.unknown_names, found.unknown_initials)

RECURSIVE ReadInterventionalDays(_, _, _, _, _, _)
\* for day in range(1, days_in_month + 1), from acc.day on, with the break
\* past the last column
ReadInterventionalDays(ws, row, first_col_idx, last_col_idx, days_in_month, acc) ==
  IF acc.day > days_in_month \/ first_col_idx + acc.day - 1 > last_col_idx THEN acc
  ELSE ReadInterventionalDays(ws, row, first_col_idx, last_col_idx, days_in_month,
         IF Cell(ws, row, first_col_idx + acc.day - 1) = <<>>
         THEN DayReached(acc.day + 1, acc.assignments,
                         acc.unknown_names, acc.unknown_initials)
         ELSE AssignedDay(acc.day, acc.assignments,
                          find_username_by_identifier(Cell(ws, row, first_col_idx + acc.day - 1),
                                                      acc.unknown_names,
                                                      acc.unknown_initials)))

\* assignments: for every day with a filled cell the username, or None;
\* an empty result where no worksheet was passed
read_interventional_data(has_ws, ws, config, month_num, year, names, initials) ==
  IF ~has_ws THEN DayReached(1, <<>>, names, initials)
  ELSE ReadInterventionalDays(ws, config.data_row, col_letter_to_index(config.first_col),
                              col_letter_to_index(config.last_col),
                              DaysInMonth(year, month_num),
                              DayReached(1, <<>>, names, initials))

\* the two worksheets taken as provided whatever was passed
sheets_provided_always(has_attending, has_sp) == TRUE

\* the two worksheets taken as missing whatever was passed
sheets_provided_never(has_attending, has_sp) == FALSE

\* neither attending_sheet nor sp_sheet is None
sheets_provided(has_attending, has_sp) == has_attending /\ has_sp

\* assignments[day] = {'consultants': ..., 'staff': ...}
Assignments(consultants, staff) ==
  Assigned([d \in DOMAIN consultants.days |-> DayData(consultants.days[d], staff.days[d])],
           staff.unknown_names, staff.unknown_initials)

\* the loop over the staff rows, after the loop over the consultant rows
StaffAfter(sp_sheet, config, days_in_month, consultants) ==
  Assignments(consultants,
              ReadDays(sp_sheet, "staff", config.staff_rows,
                       col_letter_to_index(config.first_col),
                       col_letter_to_index(config.last_col), days_in_month,
                       DaysRead(<<>>, consultants.unknown_names,
                                consultants.unknown_initials)))

\* assignments: for every day read the consultants and the staff
read_cardiology_data(attending_sheet, sp_sheet, config, month_num, year, names, initials) ==
  StaffAfter(sp_sheet, config, DaysInMonth(year, month_num),
             ReadDays(attending_sheet, "consultants", config.consultant_rows,
                      col_letter_to_index(config.first_col),
                      col_letter_to_index(config.last_col),
                      DaysInMonth(year, month_num), DaysRead(<<>>, names, initials)))

-----------------------------------------------------------------------------
(* The Cardiology worksheets a run starts from: "full", "mixed" and         *)
(* "empty" fillings, and the fillings of "full" with the SP worksheet or    *)
(* the Attending worksheet not passed.                                      *)

CardiologyPeople == SelectSeq(EMPLOYEE_MAP, LAMBDA emp : emp.department = "Cardiology")

RowsOf(rows) == rows[1]..rows[2]

DayCells(rows, first_col, year, month) ==
  {<<r, col_letter_to_index(first_col) + d - 1>> :
     r \in RowsOf(rows), d \in 1..DaysInMonth(year, month)}

DayOfColumn(col, first_col) == col - col_letter_to_index(first_col) + 1

\* a sheet without its cells holding None
Filled(sheet) ==
  [pos \in {p \in DOMAIN sheet : sheet[p] # <<>>} |-> sheet[pos]]

FullAttendingSheet(year, month) ==
  LET team == CardiologyTeams.Cardiology
      rows == RowsOf(team.consultant_rows)
      n == Cardinality(rows)
  IN Filled([pos \in {<<r, NameColumn>> : r \in rows \cup {CardiologyTeams.Interventional.data_row}}
                     \cup DayCells(team.consultant_rows, team.first_col, year, month)
                     \cup DayCells(<<CardiologyTeams.Interventional.data_row,
                                     CardiologyTeams.Interventional.data_row>>,
                                   team.first_col, year, month) |->
       LET r == pos[1]
           d == DayOfColumn(pos[2], team.first_col)
       IN IF r = CardiologyTeams.Interventional.data_row
          THEN (IF pos[2] = NameColumn THEN <<"T","e","a","m"," ","9","4">>
                ELSE CardiologyPeople[(d % n) + 1].emp_initials)
          ELSE IF pos[2] = NameColumn THEN CardiologyPeople[r - team.consultant_rows[1] + 1].emp_name
          ELSE IF r = team.consultant_rows[1] + (d % n) THEN <<"D">>
          ELSE IF r = team.consultant_rows[1] + ((d + 2) % n) THEN <<"X">>
          ELSE <<>>])

FullSPSheet(year, month) ==
  LET team == CardiologyTeams.Cardiology
      rows == RowsOf(team.staff_rows)
      n == Cardinality(rows)
  IN Filled([pos \in {<<r, NameColumn>> : r \in rows}
                     \cup DayCells(team.staff_rows, team.first_col, year, month) |->
       LET r == pos[1]
           d == DayOfColumn(pos[2], team.first_col)
       IN IF pos[2] = NameColumn THEN CardiologyPeople[r - team.staff_rows[1] + 7].emp_name
          ELSE IF r = team.staff_rows[1] + (d % n) THEN <<"D">>
          ELSE IF r = team.staff_rows[1] + ((d + 1) % n) THEN <<"E">>
          ELSE IF r = team.staff_rows[1] + ((d + 2) % n) THEN <<"N">>
          ELSE <<>>])

FullTeamEightSheet(year, month) ==
  LET team == CardiologyTeams.Cardiovascular
      rows == RowsOf(team.data_rows)
      n == Cardinality(rows)
  IN Filled([pos \in {<<r, 2>> : r \in rows}
                     \cup DayCells(team.data_rows, team.first_col, year, month) |->
       LET r == pos[1]
           d == DayOfColumn(pos[2], team.first_col)
       IN IF pos[2] = 2
          THEN (IF r = team.data_rows[2] THEN <<"G","S">>
                ELSE CardiologyPeople[r - team.data_rows[1] + 16].emp_name)
          ELSE IF r = team.data_rows[1] + (d % n) THEN <<"X">>
          ELSE IF r = team.data_rows[1] + ((d + 1) % n) THEN <<"X","A">>
          ELSE <<>>])

MixedAttendingName(r) ==
  CASE r = 6  -> <<"Q","u","r","e","s","h","i">>
    [] r = 7  -> <<"D","r","."," ","N","o","b","o","d","y">>
    [] r = 8  -> <<"Z","Z">>
    [] r = 9  -> <<>>
    [] r = 10 -> <<" ","s","a","l","a","m","i"," ">>
    [] r = 11 -> <<"L","."," ","P","a","r","i","v","a","r">>
    [] OTHER  -> <<"T","e","a","m"," ","9","4">>

MixedAttendingCell(r, d) ==
  CASE (r + d) % 7 = 0 -> <<"D">>
    [] (r + d) % 7 = 1 -> <<"v","a","c","a","t","i","o","n">>
    [] (r + d) % 7 = 2 -> <<"L","D">>
    [] (r + d) % 7 = 3 -> <<" ", "d", "\n", "x", " ">>
    [] (r + d) % 7 = 4 -> <<"D","/","A">>
    [] (r + d) % 7 = 5 -> <<"2","C">>
    [] OTHER           -> <<>>

MixedInterventionalCell(d) ==
  CASE d % 3 = 0 -> <<>>
    [] d % 3 = 1 -> <<"m">>
    [] OTHER     -> <<"N","o","b","o","d","y">>

MixedAttendingSheet(year, month) ==
  LET team == CardiologyTeams.Cardiology
      row94 == CardiologyTeams.Interventional.data_row
  IN Filled([pos \in {<<r, NameColumn>> : r \in RowsOf(team.consultant_rows) \cup {row94}}
                     \cup DayCells(team.consultant_rows, team.first_col, year, month)
                     \cup DayCells(<<row94, row94>>, team.first_col, year, month) |->
       IF pos[2] = NameColumn THEN MixedAttendingName(pos[1])
       ELSE IF pos[1] = row94 THEN MixedInterventionalCell(DayOfColumn(pos[2], team.first_col))
       ELSE MixedAttendingCell(pos[1], DayOfColumn(pos[2], team.first_col))])

MixedSPName(r) ==
  CASE r = 6  -> <<"P"," ","B","h","a","j","r","a">>
    [] r = 7  -> <<"k","9","9">>
    [] r = 8  -> <<"D","r","."," ","W","h","o">>
    [] r = 9  -> <<"B","e","n"," ","J","i">>
    [] r = 10 -> <<>>
    [] r = 11 -> <<"X","X">>
    [] r = 12 -> <<"T","a","m","h","a","n","e">>
    [] OTHER  -> <<"K","o","n","s","a"," ",".">>

MixedSPCell(r, d) ==
  CASE (r + 2 * d) % 9 = 0 -> <<"D">>
    [] (r + 2 * d) % 9 = 1 -> <<"2","c","/","e">>
    [] (r + 2 * d) % 9 = 2 -> <<"2","C">>
    [] (r + 2 * d) % 9 = 3 -> <<"N">>
    [] (r + 2 * d) % 9 = 4 -> <<"C","E">>
    [] (r + 2 * d) % 9 = 5 -> <<"o","f","f">>
    [] (r + 2 * d) % 9 = 6 -> <<"e"," ","n">>
    [] (r + 2 * d) % 9 = 7 -> <<>>
    [] OTHER               -> <<"X">>

MixedSPSheet(year, month) ==
  LET team == CardiologyTeams.Cardiology
  IN Filled([pos \in {<<r, NameColumn>> : r \in RowsOf(team.staff_rows)}
                     \cup DayCells(team.staff_rows, team.first_col, year, month) |->
       IF pos[2] = NameColumn THEN MixedSPName(pos[1])
       ELSE MixedSPCell(pos[1], DayOfColumn(pos[2], team.first_col))])

MixedTeamEightName(r) ==
  CASE r = 12 -> <<"A","n","i","t","a"," ","G","u","n","d","a">>
    [] r = 13 -> <<"N","o","b","o","d","y">>
    [] r = 14 -> <<"G","S">>
    [] r = 15 -> <<>>
    [] OTHER  -> <<"a","e">>

MixedTeamEightCell(r, d) ==
  CASE (r + d) % 6 = 0 -> <<"X">>
    [] (r + d) % 6 = 1 -> <<" ","x","a"," ">>
    [] (r + d) % 6 = 2 -> <<"X","P">>
    [] (r + d) % 6 = 3 -> <<"Y">>
    [] (r + d) % 6 = 4 -> <<>>
    [] OTHER           -> <<"D">>

MixedTeamEightSheet(year, month) ==
  LET team == CardiologyTeams.Cardiovascular
  IN Filled([pos \in {<<r, 2>> : r \in RowsOf(team.data_rows)}
                     \cup DayCells(team.data_rows, team.first_col, year, month) |->
       IF pos[2] = 2 THEN MixedTeamEightName(pos[1])
       ELSE MixedTeamEightCell(pos[1], DayOfColumn(pos[2], team.first_col))])

SheetScenarios == {"full", "mixed", "empty", "no_sp", "no_attending"}

\* workbooks and config: the three worksheets, whether ws_attending and
\* ws_sp are worksheets or None, config['teams'], and the places of the
\* three reader results
CardiologySheets(scenario, year, month) ==
  [dept |-> "Cardiology",
   teams |-> CardiologyTeams,
   has_attending |-> scenario # "no_attending",
   has_sp |-> scenario # "no_sp",
   team8 |-> CASE scenario = "mixed" -> MixedTeamEightSheet(year, month)
               [] scenario = "empty" -> <<>>
               [] OTHER              -> FullTeamEightSheet(year, month),
   ws_attending |-> CASE scenario = "mixed" -> MixedAttendingSheet(year, month)
                      [] scenario \in {"empty", "no_attending"} -> <<>>
                      [] OTHER -> FullAttendingSheet(year, month),
   ws_sp |-> CASE scenario = "mixed" -> MixedSPSheet(year, month)
               [] scenario \in {"empty", "no_sp"} -> <<>>
               [] OTHER -> FullSPSheet(year, month),
   cardiovascular_data |-> <<>>,
   interventional_data |-> <<>>,
   cardiology_data |-> <<>>]

-----------------------------------------------------------------------------
(* extract_schedule_data of both departments, from the worksheets: the      *)
(* Radiology loops as above; for Cardiology the three readers, then         *)
(* _create_output_data.                                                     *)

InitExtract ==
  /\ \/ \E scenario \in Scenarios, ym \in RunMonths :
          LET wb == RadiologyWorkbooks(scenario, ym[1], ym[2])
          IN /\ workbooks = wb
             /\ run = StartRun("Radiology", scenario, ym[1], ym[2], wb)
     \/ \E scenario \in SheetScenarios, ym \in RunMonths :
          /\ workbooks = CardiologySheets(scenario, ym[1], ym[2])
          /\ run = [dept |-> "Cardiology", scenario |-> scenario, year |-> ym[1],
                    month |-> ym[2], day |-> 0, pos |-> 0, phase |-> "team8"]
  /\ expected_entries = <<>>
  /\ unknown_names = {}
  /\ unknown_initials = {}
  /\ output_data = <<>>
  /\ call = NoCall
  /\ log = <<>>
  /\ date = NoDate
  /\ dow = 0
  /\ weekday_flag = FALSE

\* the result of a reader kept, with the names it left in the tracker
Keep(field, value, read) ==
  /\ workbooks' = [workbooks EXCEPT ![field] = value]
  /\ unknown_names' = read.unknown_names
  /\ unknown_initials' = read.unknown_initials

KeepCardiovascular(read) == Keep("cardiovascular_data", read.days, read)

KeepInterventional(read) == Keep("interventional_data", read.assignments, read)

\* team8_data = self._read_cardiovascular_data(...)
ReadCardiovascular ==
  /\ run.dept = "Cardiology"
  /\ run.phase = "team8"
  /\ KeepCardiovascular(read_cardiovascular_data(workbooks.team8,
                                                workbooks.teams.Cardiovascular,
                                                run.month, run.year,
                                                unknown_names, unknown_initials))
  /\ run' = [run EXCEPT !.phase = "team94"]
  /\ UNCHANGED <<expected_entries, output_data, call, log, calendarVars>>

\* team94_data = self._read_interventional_data(...)
ReadInterventional ==
  /\ run.dept = "Cardiology"
  /\ run.phase = "team94"
  /\ KeepInterventional(read_interventional_data(workbooks.has_attending,
                                                 workbooks.ws_attending,
                                                 workbooks.teams.Interventional,
                                                 run.month, run.year,
                                                 unknown_names, unknown_initials))
  /\ run' = [run EXCEPT !.phase = "team123"]
  /\ UNCHANGED <<expected_entries, output_data, call, log, calendarVars>>

\* the assignments kept, and _create_output_data at its first block
KeepCardiology(read) ==
  /\ Keep("cardiology_data", read.assignments, read)
  /\ run' = StartRun("Cardiology", run.scenario, run.year, run.month,
                     [workbooks EXCEPT !.cardiology_data = read.assignments])

\* team123_data = self._read_cardiology_data(...): raise ValueError, or the
\* assignments with which _create_output_data starts
ReadCardiology ==
  /\ run.dept = "Cardiology"
  /\ run.phase = "team123"
  /\ IF ~sheets_provided(workbooks.has_attending, workbooks.has_sp)
     THEN /\ run' = [run EXCEPT !.phase = "raised"]
          /\ UNCHANGED <<workbooks, unknown_names, unknown_initials>>
     ELSE KeepCardiology(read_cardiology_data(workbooks.ws_attending, workbooks.ws_sp,
                                              workbooks.teams.Cardiology,
                                              run.month, run.year,
                                              unknown_names, unknown_initials))
  /\ UNCHANGED <<expected_entries, output_data, call, log, calendarVars>>

NextExtract ==
  \/ GenCTMorning
  \/ GenCTMidday
  \/ GenCTOncall
  \/ TeamWork
  \/ TeamOncall
  \/ WeekendOncall
  \/ ReadCardiovascular
  \/ ReadInterventional
  \/ ReadCardiology
  \/ WeekdayConsultant
  \/ WeekdayDayCall
  \/ WeekdayEvening
  \/ WeekdayNight
  \/ WeekendConsultant
  \/ WeekendDayCall
  \/ WeekendNight
  \/ Interventional
  \/ Cardiovascular

SpecExtract == InitExtract /\ [][NextExtract]_vars

-----------------------------------------------------------------------------
(* extract_schedule_data is a sequence of loops over finite ranges: a run   *)
(* ends when every step it can take brings it nearer to its end and it has  *)
(* a step to take wherever it has not ended.                                *)

\* the worksheets the extraction needs were resolved
ResolvedSheets ==
  run.dept = "Radiology" \/ (workbooks.has_attending /\ workbooks.has_sp)

DirectoryUsernames == {EMPLOYEE_MAP[e].id : e \in Employees}

OnlyDirectoryRecords ==
  \A i \in DOMAIN output_data : output_data[i].EMPLOYEE \in DirectoryUsernames

ReaderPhases == {"team8", "team94", "team123"}

\* the blocks of the two departments
BlockKinds ==
  {"GenCTMorning", "GenCTMidday", "GenCTOncall", "TeamWork", "TeamOncall", "WeekendOncall",
   "WeekdayConsultant", "WeekdayDayCall", "WeekdayEvening", "WeekdayNight",
   "WeekendConsultant", "WeekendDayCall", "WeekendNight", "Interventional", "Cardiovascular"}

\* the run stands before a reader, or at a block of a day of the month
HasStep ==
  \/ run.dept = "Cardiology" /\ run.phase \in ReaderPhases
  \/ /\ Running
     /\ run.day \in 1..DaysInMonth(run.year, run.month)
     /\ run.pos \in DOMAIN DayItems(workbooks, run.year, run.month, run.day)
     /\ CurrentItem.kind \in BlockKinds

\* the readers still to be called, and the loops of the blocks after them
PhaseRank ==
  CASE run.phase = "team8"   -> 4
    [] run.phase = "team94"  -> 3
    [] run.phase = "team123" -> 2
    [] run.phase = "run"     -> 1
    [] OTHER                 -> 0

RECURSIVE ItemsFrom(_, _, _, _)
\* the number of blocks from day on to the end of the month
ItemsFrom(wb, year, month, day) ==
  IF day > DaysInMonth(year, month) THEN 0
  ELSE Len(DayItems(wb, year, month, day)) + ItemsFrom(wb, year, month, day + 1)

\* the blocks the loops have still to process
BlocksLeft ==
  IF run.phase = "run"
  THEN ItemsFrom(workbooks, run.year, run.month, run.day) - run.pos + 1
  ELSE 0

\* a step leaves fewer readers to call, or fewer blocks to process
Decreases ==
  \/ PhaseRank' < PhaseRank
  \/ PhaseRank' = PhaseRank /\ BlocksLeft' < BlocksLeft

(* C14: with resolved worksheets, whatever the cells hold (resolvable and   *)
(* unresolvable names and initials, recognised and unrecognised markers,    *)
(* non-numeric day cells, empty cells), the extraction of either department *)
(* never raises and comes to its end with a record list: it has a step to   *)
(* take until it is done and every step brings it nearer to its end; the    *)
(* unresolved identifiers stay out of the records.                          *)
C14_DataQualityNeverAborts ==
  /\ [](ResolvedSheets => /\ run.phase # "raised"
                           /\ (HasStep \/ run.phase = "done")
                           /\ OnlyDirectoryRecords)
  /\ [][ResolvedSheets => Decreases]_vars

\* a Cardiology run over cells of mixed quality at its end: records were
\* produced, identifiers were left unresolved and blocks are missing
C14_Witness ==
  /\ run.dept = "Cardiology"
  /\ ResolvedSheets
  /\ run.phase = "done"
  /\ output_data # <<>>
  /\ unknown_names # {}
  /\ unknown_initials # {}
  /\ get_missing_entries(expected_entries) # <<>>

\* the readers have been called and the run is past them
PastReaders == run.phase \in {"run", "done", "raised"}

(* C16: a Cardiology run whose SP worksheet is None raises: no record list  *)
(* and no expected block; the Team 94 reader returns an empty result where  *)
(* the Attending worksheet is None, without raising; and a run that ended   *)
(* with no record did not raise.                                            *)
C16_MissingSPSheetRaises ==
  /\ (run.dept = "Cardiology" /\ ~workbooks.has_sp /\ PastReaders)
       => (run.phase = "raised" /\ output_data = <<>> /\ expected_entries = <<>>)
  /\ (run.dept = "Cardiology" /\ ~workbooks.has_attending /\ run.phase = "team123")
       => workbooks.interventional_data = <<>>
  /\ (run.dept = "Cardiology" /\ run.phase = "done") => ResolvedSheets

\* the run without the SP worksheet raised after Team 8 and Team 94 were read
C16_Witness ==
  /\ run.dept = "Cardiology"
  /\ ~workbooks.has_sp
  /\ run.phase = "raised"
  /\ workbooks.cardiovascular_data # <<>>
  /\ workbooks.interventional_data # <<>>

-----------------------------------------------------------------------------
(* The choice of the Attending and SP worksheets of the rotation workbook,  *)
(* as validate_and_configure makes it and as the earlier                    *)
(* _read_cardiology_data of src/cardiology_config.py makes it.              *)

MaxSheets == 2

SheetMonths == {2, 12}

\* calendar.month_abbr and calendar.month_name
month_abbr(month) == IF month = 2 THEN <<"F","e","b">> ELSE <<"D","e","c">>

month_name(month) == IF month = 2 THEN <<"F","e","b","r","u","a","r","y">> ELSE <<"D","e","c","e","m","b","e","r">>

SheetNames ==
  {<<"F","e","b"," ","A","t","t","e","n","d","i","n","g">>, <<"F","E","B"," ","a","t","t","e","n","d","i","n","g"," ","d","r","a","f","t">>, <<"F","e","b","r","u","a","r","y"," ","A","t","t","e","n","d","i","n","g">>, <<"F","e","b"," ","2","0","2","4"," ","S","P">>,
   <<"A","t","t","e","n","d","i","n","g">>, <<"D","e","c"," ","A","t","t","e","n","d","i","n","g">>, <<"S","h","e","e","t","1">>, <<"s","p">>}

\* wb.sheetnames: one to MaxSheets sheets of different names
Sheetnames ==
  {names \in UNION {[1..n -> SheetNames] : n \in 1..MaxSheets} :
     \A i, j \in DOMAIN names : i # j => names[i] # names[j]}

\* what the operator selected or typed: nothing, or a name
OperatorNames == {<<>>, <<"A","t","t","e","n","d","i","n","g">>, <<"F","e","b"," ","2","0","2","4"," ","S","P">>, <<" ","S","h","e","e","t","1"," ">>, <<"M","i","s","s","i","n","g">>}

IsSheet(sheetnames, sheet_name) ==
  \E i \in DOMAIN sheetnames : sheetnames[i] = sheet_name

\* month_abbr.lower() in sheet_name.lower() and 'attending' in sheet_name.lower()
AttendingDefault(sheet_name, month) ==
  /\ Contains(Lower(sheet_name), Lower(month_abbr(month)))
  /\ Contains(Lower(sheet_name), <<"a","t","t","e","n","d","i","n","g">>)

\* the worksheet found by the loop over the sheets, or the first sheet
FirstOr(found, sheetnames) == IF found # <<>> THEN found[1] ELSE sheetnames[1]

\* validate_and_configure with the first sheet chosen whatever the operator
\* selected
select_attending_default(sheetnames, attending_sheet_name, month) ==
  FirstOr(SelectSeq(sheetnames, LAMBDA n : AttendingDefault(n, month)), sheetnames)

\* validate_and_configure: the name of the sheet taken as ws_attending
select_attending(sheetnames, attending_sheet_name, month) ==
  IF attending_sheet_name # <<>> /\ IsSheet(sheetnames, attending_sheet_name)
  THEN attending_sheet_name
  ELSE FirstOr(SelectSeq(sheetnames, LAMBDA n : AttendingDefault(n, month)), sheetnames)

\* str(year) for a year of four digits
YearText(year) == TwoDigits(year \div 100) \o TwoDigits(year % 100)

\* 'sp' in sheet_name.lower() and (month_abbr.lower() in sheet_name.lower()
\* or str(year) in sheet_name)
SPDefault(sheet_name, month, year) ==
  /\ Contains(Lower(sheet_name), <<"s","p">>)
  /\ \/ Contains(Lower(sheet_name), Lower(month_abbr(month)))
     \/ Contains(sheet_name, YearText(year))

\* the sheet of the first loop, else the sheet of the second, else None
FirstOfTwo(found, any) ==
  IF found # <<>> THEN [none |-> FALSE, sheet |-> found[1]]
  ELSE IF any # <<>> THEN [none |-> FALSE, sheet |-> any[1]]
  ELSE [none |-> TRUE, sheet |-> <<>>]

\* validate_and_configure: the sheet taken as ws_sp, or None
select_sp(sheetnames, sp_sheet_name, month, year) ==
  IF sp_sheet_name # <<>> /\ IsSheet(sheetnames, sp_sheet_name)
  THEN [none |-> FALSE, sheet |-> sp_sheet_name]
  ELSE FirstOfTwo(SelectSeq(sheetnames, LAMBDA n : SPDefault(n, month, year)),
                  SelectSeq(sheetnames, LAMBDA n : Contains(Lower(n), <<"s","p">>)))

\* attending_pattern = f"{month_abbr} Attending"
attending_pattern(month) == month_abbr(month) \o <<" ","A","t","t","e","n","d","i","n","g">>

\* the fuzzy match of the earlier reader
AttendingFuzzy(sheet_name, month) ==
  \/ /\ Contains(Lower(sheet_name), Lower(month_abbr(month)))
     /\ Contains(Lower(sheet_name), <<"a","t","t","e","n","d","i","n","g">>)
  \/ /\ Contains(Lower(sheet_name), Lower(month_name(month)))
     /\ Contains(Lower(sheet_name), <<"a","t","t","e","n","d","i","n","g">>)

Found(sheet_name) == [raised |-> FALSE, sheet |-> sheet_name]

\* the sheet the operator typed, or raise ValueError
Prompted(sheetnames, sheet_input) ==
  IF sheet_input # <<>> /\ IsSheet(sheetnames, sheet_input) THEN Found(sheet_input)
  ELSE [raised |-> TRUE, sheet |-> <<>>]

\* the sheet of the fuzzy match, else the sheet the operator typed
FuzzyOr(found, sheetnames, sheet_input) ==
  IF found # <<>> THEN Found(found[1]) ELSE Prompted(sheetnames, sheet_input)

\* _read_cardiology_data of src/cardiology_config.py: the Attending sheet
find_attending(sheetnames, typed, month) ==
  IF IsSheet(sheetnames, attending_pattern(month)) THEN Found(attending_pattern(month))
  ELSE FuzzyOr(SelectSeq(sheetnames, LAMBDA n : AttendingFuzzy(n, month)),
               sheetnames, Strip(typed))

InitSheets ==
  /\ \E sheetnames \in Sheetnames, operator \in OperatorNames, month \in SheetMonths :
       workbooks = [dept |-> "Cardiology", sheetnames |-> sheetnames,
                    operator |-> operator, month |-> month, year |-> 2024]
  /\ expected_entries = <<>>
  /\ unknown_names = {}
  /\ unknown_initials = {}
  /\ output_data = <<>>
  /\ run = NoRun
  /\ call = NoCall
  /\ log = <<>>
  /\ date = NoDate
  /\ dow = 0
  /\ weekday_flag = FALSE

\* validate_and_configure, with selected_sheets[0]['attending'] the name the
\* operator selected
SelectSheets ==
  /\ call = NoCall
  /\ call' = [op |-> "validate",
              attending |-> select_attending(workbooks.sheetnames, workbooks.operator,
                                             workbooks.month),
              sp |-> select_sp(workbooks.sheetnames, <<>>, workbooks.month, workbooks.year)]
  /\ UNCHANGED <<expected_entries, unknown_names, unknown_initials, output_data,
                 workbooks, run, log, calendarVars>>

\* the earlier _read_cardiology_data, with input() the name the operator typed
FindSheets ==
  /\ call = NoCall
  /\ call' = [op |-> "read",
              attending |-> find_attending(workbooks.sheetnames, workbooks.operator,
                                           workbooks.month)]
  /\ UNCHANGED <<expected_entries, unknown_names, unknown_initials, output_data,
                 workbooks, run, log, calendarVars>>

NextSheets ==
  \/ SelectSheets
  \/ FindSheets

SpecSheets == InitSheets /\ [][NextSheets]_vars

\* the first of a set of positions
FirstIndex(positions) == CHOOSE i \in positions : \A j \in positions : i <= j

ExactPositions ==
  {i \in DOMAIN workbooks.sheetnames :
     workbooks.sheetnames[i] = attending_pattern(workbooks.month)}

\* the sheets whose name contains the month's name or abbreviation
MonthPositions ==
  {i \in DOMAIN workbooks.sheetnames :
     \/ Contains(Lower(workbooks.sheetnames[i]), Lower(month_abbr(workbooks.month)))
     \/ Contains(Lower(workbooks.sheetnames[i]), Lower(month_name(workbooks.month)))}

\* the sheets whose name contains the month's name or abbreviation and
\* 'attending'
MonthAttendingPositions ==
  {i \in MonthPositions : Contains(Lower(workbooks.sheetnames[i]), <<"a","t","t","e","n","d","i","n","g">>)}

OperatorPositions ==
  {i \in DOMAIN workbooks.sheetnames :
     workbooks.operator # <<>> /\ workbooks.sheetnames[i] = Strip(workbooks.operator)}

\* the sheet of the stated precedence: the exact name, else the first month
\* match, else the operator's sheet
StatedAttending ==
  IF ExactPositions # {} THEN attending_pattern(workbooks.month)
  ELSE IF MonthPositions # {} THEN workbooks.sheetnames[FirstIndex(MonthPositions)]
  ELSE Strip(workbooks.operator)

-----------------------------------------------------------------------------
(* The choice of the employee of a Team 123 block from the entries of a     *)
(* day, on its own: the consultants or the staff of one day, of up to       *)
(* MaxEntries entries (username or None, markers).                          *)

MaxEntries == 3

EntryUsernames == {None, "qulfi6e", "salam0c"}

\* what _parse_day_abbreviations returns for a consultant cell and is kept
ConsultantMarkers == {<<"D">>, <<"LD">>, <<"DL">>, <<"D/A">>, <<"X">>, <<"X", "D">>}

\* and for a staff cell
StaffMarkers == {<<"D">>, <<"2C">>, <<"E">>, <<"N">>, <<"D", "E">>, <<"X">>}

EntryLists(markers) ==
  UNION {[1..n -> EntryUsernames \X markers] : n \in 0..MaxEntries}

InitSelection ==
  /\ \/ \E consultants \in EntryLists(ConsultantMarkers) :
          workbooks = [dept |-> "Cardiology", of |-> "consultants",
                       day_data |-> DayData(consultants, <<>>)]
     \/ \E staff \in EntryLists(StaffMarkers) :
          workbooks = [dept |-> "Cardiology", of |-> "staff",
                       day_data |-> DayData(<<>>, staff)]
  /\ expected_entries = <<>>
  /\ unknown_names = {}
  /\ unknown_initials = {}
  /\ output_data = <<>>
  /\ run = NoRun
  /\ call = NoCall
  /\ log = <<>>
  /\ date = NoDate
  /\ dow = 0
  /\ weekday_flag = FALSE

Selected(op, username) ==
  /\ call = NoCall
  /\ call' = [op |-> op, username |-> username]
  /\ UNCHANGED <<expected_entries, unknown_names, unknown_initials, output_data,
                 workbooks, run, log, calendarVars>>

SelectWeekdayConsultant ==
  /\ workbooks.of = "consultants"
  /\ Selected("weekday_consultant", weekday_consultant(workbooks.day_data.consultants))

SelectWeekendConsultant ==
  /\ workbooks.of = "consultants"
  /\ Selected("weekend_consultant", weekend_consultant(workbooks.day_data.consultants))

SelectDayCall ==
  /\ workbooks.of = "staff"
  /\ Selected("day_call", day_call(workbooks.day_data.staff).username)

NextSelection ==
  \/ SelectWeekdayConsultant
  \/ SelectWeekendConsultant
  \/ SelectDayCall

SpecSelection == InitSelection /\ [][NextSelection]_vars

\* the entries of the day the selection was made from
Entries ==
  IF workbooks.of = "consultants" THEN workbooks.day_data.consultants
  ELSE workbooks.day_data.staff

\* the positions of the resolved entries bearing one of the markers
ResolvedBearing(markers) ==
  {i \in DOMAIN Entries :
     Entries[i][1] # None /\ \E k \in DOMAIN Entries[i][2] : Entries[i][2][k] \in markers}

ResolvedEntries == {i \in DOMAIN Entries : Entries[i][1] # None}

\* the selection is the username of the first entry of the first of the
\* three sets that is not empty, and None if all are empty
FollowsPriority(first, second, third) ==
  IF first # {} THEN call.username = Entries[FirstIndex(first)][1]
  ELSE IF second # {} THEN call.username = Entries[FirstIndex(second)][1]
  ELSE IF third # {} THEN call.username = Entries[FirstIndex(third)][1]
  ELSE call.username = None

(* C17: the consultant of a day is, on a weekday, the first resolved entry  *)
(* bearing 'D', else the first resolved entry bearing 'LD', 'DL' or 'D/A',  *)
(* else the first resolved entry; on a weekend the first resolved entry     *)
(* bearing 'X', else the first resolved entry bearing 'D', else the first   *)
(* resolved entry. An unresolved entry is never selected.                   *)
C17_ConsultantPriority ==
  /\ call.op = "weekday_consultant" =>
       FollowsPriority(ResolvedBearing({"D"}), ResolvedBearing({"LD", "DL", "D/A"}),
                       ResolvedEntries)
  /\ call.op = "weekend_consultant" =>
       FollowsPriority(ResolvedBearing({"X"}), ResolvedBearing({"D"}), ResolvedEntries)
  /\ call.op \in {"weekday_consultant", "weekend_consultant"} =>
       (call.username = None <=> ResolvedEntries = {})

\* a weekday with an unresolved 'D' entry first, a resolved 'X' entry second
\* and a resolved 'LD' entry third: the third entry was selected
C17_Witness ==
  /\ call.op = "weekday_consultant"
  /\ Len(Entries) = 3
  /\ Entries[1] = <<None, <<"D">>>>
  /\ Entries[2][1] # None /\ Entries[2][2] = <<"X">>
  /\ Entries[3][1] # None /\ Entries[3][1] # Entries[2][1] /\ Entries[3][2] = <<"LD">>
  /\ call.username = Entries[3][1]

(* C18 as stated: the staff day-call record names the first resolved entry  *)
(* bearing 'D'; otherwise, if some resolved entry bears '2C', the first     *)
(* such entry, whatever unresolved 'D' or '2C' entries stand before it.     *)
C18_DayCallSecondaryToken ==
  call.op = "day_call" =>
    IF ResolvedBearing({"D"}) # {}
    THEN call.username = Entries[FirstIndex(ResolvedBearing({"D"}))][1]
    ELSE ResolvedBearing({"2C"}) # {} =>
           call.username = Entries[FirstIndex(ResolvedBearing({"2C"}))][1]

\* an unresolved 'D' entry before a resolved '2C' entry: nobody was selected
C18_Witness ==
  /\ call.op = "day_call"
  /\ Len(Entries) = 2
  /\ Entries[1] = <<None, <<"D">>>>
  /\ Entries[2] = <<"qulfi6e", <<"2C">>>>
  /\ call.username = None

-----------------------------------------------------------------------------
(* The Team 123 and Team 94 blocks of a day of a Cardiology run, with the   *)
(* raw entries each block has that day and the employee selected for it.    *)

\* the usernames, None included, of the entries bearing one of the markers
Bearing(list, markers) ==
  {list[i][1] : i \in {j \in DOMAIN list : \E m \in markers : Has(list[j][2], m)}}

BlockOfDay(team_name, team_id, start_time, end_time, notes, raw, selected) ==
  [team_name |-> team_name, team_id |-> team_id, start_time |-> start_time,
   end_time |-> end_time, notes |-> notes, raw |-> raw, selected |-> selected]

DayDataOf(day) ==
  IF day \in DOMAIN workbooks.cardiology_data THEN workbooks.cardiology_data[day]
  ELSE DayData(<<>>, <<>>)

InterventionalBlock(day, start_time) ==
  IF day \in DOMAIN workbooks.interventional_data
  THEN BlockOfDay("Interventional Cardiologist", "94", start_time, "700", "On Call",
                  {workbooks.interventional_data[day]}, workbooks.interventional_data[day])
  ELSE BlockOfDay("Interventional Cardiologist", "94", start_time, "700", "On Call",
                  {}, None)

WeekdayBlocks(day, data) ==
  {BlockOfDay("Cardiology", "123", "700", "1600", "2nd Day Call",
              {data.consultants[i][1] : i \in DOMAIN data.consultants},
              weekday_consultant(data.consultants)),
   BlockOfDay("Cardiology", "123", "700", "1600", "1st Day Call",
              Bearing(data.staff, {"D", "2C"}), day_call(data.staff).username),
   BlockOfDay("Cardiology", "123", "1600", "1900", "Evening Call",
              Bearing(data.staff, {"E"}), marker_call(data.staff, "E").username),
   BlockOfDay("Cardiology", "123", "1900", "700", "Night Call",
              Bearing(data.staff, {"N"}), marker_call(data.staff, "N").username),
   InterventionalBlock(day, "1600")}

WeekendBlocks(day, data) ==
  {BlockOfDay("Cardiology", "123", "700", "1900", "2nd Weekend Day Call",
              {data.consultants[i][1] : i \in DOMAIN data.consultants},
              weekend_consultant(data.consultants)),
   BlockOfDay("Cardiology", "123", "700", "1900", "1st Weekend Day Call",
              Bearing(data.staff, {"D", "2C"}), day_call(data.staff).username),
   BlockOfDay("Cardiology", "123", "1900", "700", "Night Call",
              Bearing(data.staff, {"N"}), marker_call(data.staff, "N").username),
   InterventionalBlock(day, "700")}

BlocksOfDay(day) ==
  IF is_weekday(Date(run.year, run.month, day)) THEN WeekdayBlocks(day, DayDataOf(day))
  ELSE WeekendBlocks(day, DayDataOf(day))

\* the records emitted for a block of a day
RecordsOfBlock(day, b) ==
  {i \in DOMAIN output_data :
     /\ output_data[i].TEAM = b.team_id
     /\ output_data[i].STARTDATE = strftime(Date(run.year, run.month, day))
     /\ output_data[i].STARTTIME = b.start_time
     /\ output_data[i].ENDTIME = b.end_time
     /\ output_data[i].NOTES = b.notes}

\* the expected entries registered under the day and times of a block
RegisteredAs(day, b) ==
  {i \in DOMAIN expected_entries :
     /\ expected_entries[i].team = b.team_name
     /\ expected_entries[i].day = day
     /\ expected_entries[i].start_time = b.start_time
     /\ expected_entries[i].end_time = b.end_time}

\* the blocks of the day registered under the same day and times
SameTimes(day, b) ==
  {c \in BlocksOfDay(day) :
     /\ c.team_name = b.team_name
     /\ c.start_time = b.start_time
     /\ c.end_time = b.end_time}

BlockAccounted(day, b) ==
  /\ Cardinality(RegisteredAs(day, b)) = Cardinality({c \in SameTimes(day, b) : c.raw # {}})
  /\ Cardinality(RecordsOfBlock(day, b)) = (IF b.selected # None THEN 1 ELSE 0)
  /\ \A i \in RecordsOfBlock(day, b) : output_data[i].EMPLOYEE = b.selected
  /\ b.raw = {} => (RecordsOfBlock(day, b) = {} /\ b.selected = None)
  /\ b.raw = {None} =>
       /\ RecordsOfBlock(day, b) = {}
       /\ \E i \in RegisteredAs(day, b) : ~expected_entries[i].generated
  /\ Cardinality({i \in RegisteredAs(day, b) : ~expected_entries[i].generated})
       = Cardinality({c \in SameTimes(day, b) : c.raw # {} /\ c.selected = None})

(* C19: at the end of a Cardiology run, for every day and every Team 123    *)
(* block (consultant, staff day, staff evening, staff night) and the Team   *)
(* 94 block: the block is registered as expected exactly when the day has   *)
(* a raw entry for it, resolved or not; one record is emitted when an       *)
(* employee was selected and none otherwise; with only unresolved entries   *)
(* the block is registered, has no record and is among the missing entries; *)
(* without a raw entry it is neither registered nor emitted.                *)
C19_BlocksRegisteredAndEmitted ==
  (run.dept = "Cardiology" /\ run.phase = "done") =>
    \A day \in 1..DaysInMonth(run.year, run.month) :
      \A b \in BlocksOfDay(day) : BlockAccounted(day, b)

\* a run ended with a day whose consultant entries are all unresolved, whose
\* staff day call was emitted, and with a day without any staff entry
C19_Witness ==
  /\ run.dept = "Cardiology"
  /\ run.phase = "done"
  /\ \E day \in 1..DaysInMonth(run.year, run.month) :
       \E b, c \in BlocksOfDay(day) :
         /\ b.notes = "2nd Day Call" /\ b.raw = {None}
         /\ c.notes = "1st Day Call" /\ c.selected # None
         /\ Cardinality(RegisteredAs(day, b)) = 2
         /\ Cardinality(RecordsOfBlock(day, c)) = 1
  /\ \E day \in 1..DaysInMonth(run.year, run.month) :
       \E b \in BlocksOfDay(day) :
         b.notes = "Night Call" /\ b.raw = {} /\ RegisteredAs(day, b) = {}

-----------------------------------------------------------------------------
(* _parse_day_abbreviations on its own: a cell text of up to MaxParts       *)
(* tokens separated by a space or a line break, parsed as a consultant      *)
(* cell and as a staff cell.                                                *)

MaxParts == 2

Separators == {<<" ">>, <<"\n">>}

RECURSIVE CellTexts(_)
\* the texts of up to n tokens
CellTexts(n) ==
  IF n = 0 THEN {<<>>}
  ELSE CellTexts(n - 1)
         \cup {text \o sep \o token :
                 text \in CellTexts(n - 1) \ {<<>>}, sep \in Separators, token \in MarkerTokens}
         \cup MarkerTokens

InitParse ==
  /\ \E text \in CellTexts(MaxParts) :
       workbooks = [dept |-> "Cardiology", cell_value |-> text]
  /\ expected_entries = <<>>
  /\ unknown_names = {}
  /\ unknown_initials = {}
  /\ output_data = <<>>
  /\ run = NoRun
  /\ call = NoCall
  /\ log = <<>>
  /\ date = NoDate
  /\ dow = 0
  /\ weekday_flag = FALSE

ParseCell ==
  /\ call = NoCall
  /\ call' = [op |-> "parse",
              consultant |-> parse_day_abbreviations(workbooks.cell_value, FALSE),
              staff |-> parse_day_abbreviations(workbooks.cell_value, TRUE)]
  /\ UNCHANGED <<expected_entries, unknown_names, unknown_initials, output_data,
                 workbooks, run, log, calendarVars>>

SpecParse == InitParse /\ [][ParseCell]_vars

MarkersOf(markers) == {markers[i] : i \in DOMAIN markers}

\* the text holds the combined evening marker, in either spelling
HasCombinedMarker ==
  \/ Contains(Upper(workbooks.cell_value), <<"2","C","/","E">>)
  \/ Contains(Upper(workbooks.cell_value), <<"2","C","E">>)

(* C20 as stated: for every cell text, every marker of the consultant parse *)
(* is also a marker of the staff parse of the same text.                    *)
C20_StaffParseIsSuperset ==
  call.op = "parse" => MarkersOf(call.consultant) \subseteq MarkersOf(call.staff)

(* C20: for every cell text without '2C/E' and '2CE', every marker of the   *)
(* consultant parse is also a marker of the staff parse; for a text with    *)
(* '2C/E' or '2CE' the staff parse is 'D', 'E' alone, whatever other tokens *)
(* the text holds.                                                          *)
C20_StaffParseIsSupersetUnlessCombined ==
  call.op = "parse" =>
    IF HasCombinedMarker THEN call.staff = <<"D", "E">>
    ELSE MarkersOf(call.consultant) \subseteq MarkersOf(call.staff)

\* a text of a consultant marker and a staff marker was parsed: the staff
\* parse has both, the consultant parse the first
C20_Witness ==
  /\ call.op = "parse"
  /\ ~HasCombinedMarker
  /\ MarkersOf(call.consultant) = {"LD"}
  /\ MarkersOf(call.staff) = {"LD", "N"}

-----------------------------------------------------------------------------
(* The combined evening marker and the vocabulary of the parser.            *)

ConsultantVocabulary == {"D", "LD", "DL", "D/A", "X"}

StaffVocabulary == ConsultantVocabulary \cup {"2C", "N", "E"}

\* the whitespace-separated words of the upper-cased cell text
CellWords == SplitWords(Replace(Upper(Strip(workbooks.cell_value)), <<"\n">>, <<" ">>))

IsCombined(word) == Contains(word, <<"2","C","/","E">>) \/ Contains(word, <<"2","C","E">>)

\* the words of the cell that do not hold the combined marker
PlainWords == {i \in DOMAIN CellWords : ~IsCombined(CellWords[i])}

(* C21: a staff cell whose upper-cased text contains '2C/E' or '2CE' parses *)
(* to exactly 'D', 'E', whatever else the text holds; in a consultant cell  *)
(* a word holding the combined marker contributes no marker; both parses    *)
(* return markers of the fixed vocabulary only, and a staff cell 'CE' or    *)
(* '2BE' parses to 'E'.                                                     *)
C21_CombinedMarker ==
  call.op = "parse" =>
    /\ HasCombinedMarker => call.staff = <<"D", "E">>
    /\ Len(call.consultant) <= Cardinality(PlainWords)
    /\ MarkersOf(call.consultant) \subseteq ConsultantVocabulary
    /\ MarkersOf(call.staff) \subseteq StaffVocabulary
    /\ Upper(Strip(workbooks.cell_value)) \in {<<"C","E">>, <<"2","B","E">>} => call.staff = <<"E">>

\* a cell of the combined marker and a weekend marker was parsed: the staff
\* parse is 'D', 'E' and the consultant parse the weekend marker alone
C21_Witness ==
  /\ call.op = "parse"
  /\ HasCombinedMarker
  /\ Cardinality(PlainWords) = 1
  /\ call.staff = <<"D", "E">>
  /\ call.consultant = <<"X">>
-----------------------------------------------------------------------------
(* The expected blocks of a Radiology run.                                  *)

RadiologyDone == run.dept = "Radiology" /\ run.phase = "done"

\* Friday or Saturday, counted from Monday = 0
IsWeekendDay(year, month, day) == weekday(Date(year, month, day)) \in {4, 5}

\* the number of entries registered under the key
EntriesOf(team_name, day, start_time, end_time) ==
  Cardinality({i \in DOMAIN expected_entries :
                 SameKey(expected_entries[i], team_name, day, start_time, end_time)})

EntriesOfDay(team_name, day) ==
  Cardinality({i \in DOMAIN expected_entries :
                 expected_entries[i].team = team_name /\ expected_entries[i].day = day})

\* the blocks a team has on a day of the given type
StatedBlocks(team_name, weekend) ==
  IF weekend THEN {<<"700", "700">>}
  ELSE IF team_name = "Gen_CT" THEN {<<"700", "1100">>, <<"1100", "1530">>, <<"1530", "700">>}
  ELSE {<<"700", "1530">>, <<"1530", "700">>}

RunWeekendDays ==
  {d \in 1..DaysInMonth(run.year, run.month) : IsWeekendDay(run.year, run.month, d)}

(* C22: at the end of a Radiology run, whatever the cells hold, each team   *)
(* has on each day from Sunday to Thursday exactly one expected entry for   *)
(* each of its week-day blocks (Gen_CT 700-1100, 1100-1530, 1530-700; the   *)
(* other teams 700-1530, 1530-700) and on each Friday and Saturday exactly  *)
(* one, 700-700, and no other entry; with W week-days and E weekend days    *)
(* the run registers 11 * W + 5 * E entries.                                *)
C22_RadiologyRegistersByDayType ==
  RadiologyDone =>
    /\ \A d \in 1..DaysInMonth(run.year, run.month), t \in DOMAIN RadiologyTeams :
         LET blocks == StatedBlocks(RadiologyTeams[t].name, d \in RunWeekendDays)
         IN /\ \A b \in blocks : EntriesOf(RadiologyTeams[t].name, d, b[1], b[2]) = 1
            /\ EntriesOfDay(RadiologyTeams[t].name, d) = Cardinality(blocks)
    /\ Len(expected_entries) =
         11 * (DaysInMonth(run.year, run.month) - Cardinality(RunWeekendDays))
           + 5 * Cardinality(RunWeekendDays)

\* the run over the empty grids of February 2024 has ended: no record, and
\* 11 * 21 + 5 * 8 expected entries
C22_Witness ==
  /\ RadiologyDone
  /\ run.scenario = "empty"
  /\ run.year = 2024 /\ run.month = 2
  /\ output_data = <<>>
  /\ Len(expected_entries) = 271
-----------------------------------------------------------------------------
(* The Team 8 grid: markers, roles, registrations and records.              *)

CardiologyDone == run.dept = "Cardiology" /\ run.phase = "done"

TeamEightRows == RowsOf(CardiologyTeams.Cardiovascular.data_rows)

TeamEightCell(row, day) ==
  Cell(workbooks.team8, row, col_letter_to_index(CardiologyTeams.Cardiovascular.first_col) + day - 1)

TeamEightName(row) == Cell(workbooks.team8, row, 2)

\* the roles stated for a marker
StatedRoles(marker) ==
  IF marker = <<"X">> THEN {"84", "2001"}
  ELSE IF marker = <<"X","A">> THEN {"84"}
  ELSE IF marker = <<"X","P">> THEN {"2001"}
  ELSE {}

\* the (row, role) opportunities of a day, by the cell value as it stands
ExactOpportunities(day) ==
  {p \in TeamEightRows \X {"84", "2001"} : p[2] \in StatedRoles(TeamEightCell(p[1], day))}

\* the (row, role) opportunities of a day, by the cell value stripped and
\* upper-cased, for the rows with a name
Opportunities(day) ==
  {p \in TeamEightRows \X {"84", "2001"} :
     /\ TeamEightName(p[1]) # <<>>
     /\ p[2] \in StatedRoles(Upper(Strip(TeamEightCell(p[1], day))))}

TeamEightRecords(day) ==
  {i \in DOMAIN output_data :
     /\ output_data[i].TEAM = "8"
     /\ output_data[i].STARTDATE = strftime(Date(run.year, run.month, day))}

\* what C23 states of a day with the given opportunities
TeamEightAccounted(day, opportunities) ==
  /\ EntriesOf("Cardiovascular", day, "700", "700") = Cardinality(opportunities)
  /\ \A i \in TeamEightRecords(day) :
       /\ output_data[i].STARTTIME = "700"
       /\ output_data[i].ENDTIME = "700"
       /\ output_data[i].ENDDATE = strftime(NextDate(Date(run.year, run.month, day)))
  /\ \A u \in DirectoryUsernames, role \in {"84", "2001"} :
       Cardinality({i \in TeamEightRecords(day) :
                      output_data[i].EMPLOYEE = u /\ output_data[i].ROLE = role})
         = Cardinality({p \in opportunities :
                          FindUsername(TeamEightName(p[1])) = u /\ p[2] = role})
  /\ Cardinality(TeamEightRecords(day))
       = Cardinality({p \in opportunities : FindUsername(TeamEightName(p[1])) # None})
  /\ Cardinality({i \in DOMAIN expected_entries :
                    /\ SameKey(expected_entries[i], "Cardiovascular", day, "700", "700")
                    /\ ~expected_entries[i].generated})
       = Cardinality({p \in opportunities : FindUsername(TeamEightName(p[1])) = None})

(* C23 as stated: a Team 8 cell that is exactly 'X' gives the roles 84 and  *)
(* 2001, 'XA' the role 84, 'XP' the role 2001 and any other value none;     *)
(* each (row, role) registers one block 700-700 and, with a resolved row    *)
(* name, emits one record of that role, and stays unsatisfied otherwise.    *)
C23_ExactMarkers ==
  CardiologyDone =>
    \A d \in 1..DaysInMonth(run.year, run.month) : TeamEightAccounted(d, ExactOpportunities(d))

(* C23: a Team 8 cell of a row with a name in column B whose value,         *)
(* stripped and upper-cased, is 'X' gives the roles 84 and 2001, 'XA' the   *)
(* role 84, 'XP' the role 2001; any other cell, and any cell of a row       *)
(* without name, gives none. Each (row, role) registers one block 700-700   *)
(* of its day; with a resolved row name it emits one record 700 to 700 of   *)
(* the next date carrying that role, and otherwise its block stays          *)
(* unsatisfied.                                                             *)
C23_TeamEightMarkers ==
  CardiologyDone =>
    \A d \in 1..DaysInMonth(run.year, run.month) : TeamEightAccounted(d, Opportunities(d))

\* the run over the mixed grids has ended with a Team 8 record whose role is
\* not the first directory role of its employee, with a marker written in
\* lower case, and with an unsatisfied Team 8 block
C23_Witness ==
  /\ CardiologyDone
  /\ run.scenario = "mixed"
  /\ \E i \in DOMAIN output_data :
       /\ output_data[i].TEAM = "8"
       /\ output_data[i].ROLE # get_employee_role(output_data[i].EMPLOYEE)
  /\ \E d \in 1..DaysInMonth(run.year, run.month) :
       /\ Opportunities(d) # ExactOpportunities(d)
       /\ TeamEightRecords(d) # {}
  /\ \E i \in DOMAIN expected_entries :
       expected_entries[i].team = "Cardiovascular" /\ ~expected_entries[i].generated
-----------------------------------------------------------------------------
(* The order of the records.                                                *)

\* the place of a team in the order its department processes the teams of a
\* day
TeamRank(team_id) ==
  CASE team_id = "123" -> 1
    [] team_id = "94"  -> 2
    [] team_id = "8"   -> 3
    [] OTHER -> CHOOSE t \in DOMAIN RadiologyTeams : RadiologyTeams[t].team_id = team_id

\* record a may stand right before record b
InOrder(a, b) ==
  LET day_a == toordinal(DateOf(a.STARTDATE))
      day_b == toordinal(DateOf(b.STARTDATE))
  IN \/ day_a < day_b
     \/ /\ day_a = day_b
        /\ \/ TeamRank(a.TEAM) < TeamRank(b.TEAM)
           \/ /\ a.TEAM = b.TEAM
              /\ \/ run.dept = "Cardiology"
                 \/ TimeOfDay(a.STARTTIME) < TimeOfDay(b.STARTTIME)

\* the list after the step is the list before it, or that list with
\* records added at its end
OnlyAppended ==
  /\ Len(output_data') >= Len(output_data)
  /\ SubSeq(output_data', 1, Len(output_data)) = output_data

(* C24: at every moment of a run the records stand in non-decreasing order  *)
(* of start date; the records of one day stand, for Cardiology, Team 123    *)
(* first, then Team 94, then Team 8, and for Radiology in the order Gen_CT, *)
(* IRA, MRI, US, Fluoro with the records of one team by increasing start    *)
(* time; and every step leaves the records already in the list where they   *)
(* are and adds new ones only after them.                                   *)
C24_RecordsInOrder ==
  /\ [](run.dept \in Departments =>
          \A i \in DOMAIN output_data :
            i + 1 \in DOMAIN output_data => InOrder(output_data[i], output_data[i + 1]))
  /\ [][OnlyAppended]_vars

\* a Cardiology run has ended with records of Team 123, Team 94 and Team 8
\* for one day, and records of a later day after them
C24_Witness ==
  /\ CardiologyDone
  /\ \E i, j, k, l \in DOMAIN output_data :
       /\ i < j /\ j < k /\ k < l
       /\ output_data[i].TEAM = "123"
       /\ output_data[j].TEAM = "94"
       /\ output_data[k].TEAM = "8"
       /\ output_data[i].STARTDATE = <<"0","2","/","0","1","/","2","0","2","4">>
       /\ output_data[j].STARTDATE = <<"0","2","/","0","1","/","2","0","2","4">>
       /\ output_data[k].STARTDATE = <<"0","2","/","0","1","/","2","0","2","4">>
       /\ output_data[l].STARTDATE = <<"0","2","/","0","2","/","2","0","2","4">>
-----------------------------------------------------------------------------
(* The Cardiology readers under a config whose last column comes before the *)
(* last day of the month.                                                   *)

MaxColumns == 3

\* the letter of a column index up to 'AZ'
ColumnLetter(idx) ==
  IF idx <= 26 THEN <<UpperLetters[idx]>> ELSE <<"A", UpperLetters[idx - 26]>>

\* a team's config with a last column that leaves it the given number of
\* day columns
WithColumns(team, columns) ==
  [team EXCEPT !.last_col = ColumnLetter(col_letter_to_index(team.first_col) + columns - 1)]

InitColumns ==
  /\ \E scenario \in {"full", "mixed"}, c8 \in 0..MaxColumns, c94 \in 0..MaxColumns,
        c123 \in 0..MaxColumns :
       /\ workbooks = [CardiologySheets(scenario, 2024, 2) EXCEPT
                         !.teams = [Cardiovascular |-> WithColumns(CardiologyTeams.Cardiovascular, c8),
                                    Interventional |-> WithColumns(CardiologyTeams.Interventional, c94),
                                    Cardiology |-> WithColumns(CardiologyTeams.Cardiology, c123)]]
       /\ run = [dept |-> "Cardiology", scenario |-> scenario, year |-> 2024,
                 month |-> 2, day |-> 0, pos |-> 0, phase |-> "team8"]
  /\ expected_entries = <<>>
  /\ unknown_names = {}
  /\ unknown_initials = {}
  /\ output_data = <<>>
  /\ call = NoCall
  /\ log = <<>>
  /\ date = NoDate
  /\ dow = 0
  /\ weekday_flag = FALSE

NextColumns ==
  \/ ReadCardiovascular
  \/ ReadInterventional
  \/ ReadCardiology
  \/ WeekdayConsultant
  \/ WeekdayDayCall
  \/ WeekdayEvening
  \/ WeekdayNight
  \/ WeekendConsultant
  \/ WeekendDayCall
  \/ WeekendNight
  \/ Interventional
  \/ Cardiovascular

SpecColumns == InitColumns /\ [][NextColumns]_vars

\* the number of day columns a team's config leaves it
ColumnsOf(team) ==
  LET columns == col_letter_to_index(team.last_col) - col_letter_to_index(team.first_col) + 1
  IN IF columns > DaysInMonth(run.year, run.month) THEN DaysInMonth(run.year, run.month)
     ELSE columns

\* a worksheet without its cells to the right of a team's last column
UpToLastColumn(ws, team) ==
  [pos \in {p \in DOMAIN ws : p[2] <= col_letter_to_index(team.last_col)} |-> ws[pos]]

DayColumn(team, day) == col_letter_to_index(team.first_col) + day - 1

\* the number of (username, roles) pairs times roles of a Team 8 day
RECURSIVE RolesIn(_)
RolesIn(pairs) ==
  IF pairs = <<>> THEN 0 ELSE Len(pairs[1][2]) + RolesIn(Tail(pairs))

\* the rows of a Team 123 grid whose cell of the day parses to a marker and
\* whose name cell is filled
MarkedRows(ws, rows, day, is_staff) ==
  {r \in RowsOf(rows) :
     /\ Cell(ws, r, NameColumn) # <<>>
     /\ parse_day_abbreviations(Cell(ws, r, DayColumn(workbooks.teams.Cardiology, day)),
                                is_staff) # <<>>}

\* the days for which a team of the given id is registered or recorded
DaysRegistered(team_name) ==
  {expected_entries[i].day : i \in {j \in DOMAIN expected_entries :
                                      expected_entries[j].team = team_name}}

DaysRecorded(team_id) ==
  {DateOf(output_data[i].STARTDATE).day : i \in {j \in DOMAIN output_data :
                                                   output_data[j].TEAM = team_id}}

\* the Team 8 reader has read the days of its columns, each from its column,
\* and nothing to the right of the last column
TeamEightColumns ==
  LET team == workbooks.teams.Cardiovascular
  IN /\ Len(workbooks.cardiovascular_data) = ColumnsOf(team)
     /\ \A d \in 1..ColumnsOf(team) :
          RolesIn(workbooks.cardiovascular_data[d]) = Cardinality(Opportunities(d))
     /\ run.phase = "team94" =>
          workbooks.cardiovascular_data
            = read_cardiovascular_data(UpToLastColumn(workbooks.team8, team), team,
                                       run.month, run.year, {}, {}).days

TeamNinetyFourColumns ==
  LET team == workbooks.teams.Interventional
  IN /\ DOMAIN workbooks.interventional_data
          = {d \in 1..ColumnsOf(team) :
               Cell(workbooks.ws_attending, team.data_row, DayColumn(team, d)) # <<>>}
     /\ \A d \in DOMAIN workbooks.interventional_data :
          workbooks.interventional_data[d]
            = FindUsername(Cell(workbooks.ws_attending, team.data_row, DayColumn(team, d)))
     /\ run.phase = "team123" =>
          workbooks.interventional_data
            = read_interventional_data(TRUE, UpToLastColumn(workbooks.ws_attending, team), team,
                                       run.month, run.year, {}, {}).assignments

TeamOneTwoThreeColumns ==
  LET team == workbooks.teams.Cardiology
  IN /\ DOMAIN workbooks.cardiology_data = 1..ColumnsOf(team)
     /\ \A d \in 1..ColumnsOf(team) :
          /\ Len(workbooks.cardiology_data[d].consultants)
               = Cardinality(MarkedRows(workbooks.ws_attending, team.consultant_rows, d, FALSE))
          /\ Len(workbooks.cardiology_data[d].staff)
               = Cardinality(MarkedRows(workbooks.ws_sp, team.staff_rows, d, TRUE))
     /\ run.phase = "done" =>
          workbooks.cardiology_data
            = read_cardiology_data(UpToLastColumn(workbooks.ws_attending, team),
                                   UpToLastColumn(workbooks.ws_sp, team), team,
                                   run.month, run.year, {}, {}).assignments

(* C25: each of the Cardiology readers takes day d from column              *)
(* first_col + d - 1 and stops at last_col: its result has the days of the  *)
(* columns up to last_col only, each with what its own column holds, it is  *)
(* the result for the worksheet without the cells right of last_col, and    *)
(* no block is registered and no record emitted for a team on a day past    *)
(* its last column, although the month and the worksheet have that day.     *)
C25_ReadersStopAtLastColumn ==
  run.dept = "Cardiology" =>
    /\ run.phase # "team8" => TeamEightColumns
    /\ run.phase \notin {"team8", "team94"} => TeamNinetyFourColumns
    /\ run.phase \notin {"team8", "team94", "team123"} => TeamOneTwoThreeColumns
    /\ DaysRegistered("Cardiovascular") \cup DaysRecorded("8")
         \subseteq 1..ColumnsOf(workbooks.teams.Cardiovascular)
    /\ DaysRegistered("Interventional Cardiologist") \cup DaysRecorded("94")
         \subseteq 1..ColumnsOf(workbooks.teams.Interventional)
    /\ DaysRegistered("Cardiology") \cup DaysRecorded("123")
         \subseteq 1..ColumnsOf(workbooks.teams.Cardiology)

\* a run has ended in which Team 8 had one day column and Team 94 three:
\* the Team 8 grid has a marker in the column of day 2, Team 8 has a record
\* of day 1 and none of a later day, and Team 94 has a record of day 3
C25_Witness ==
  /\ CardiologyDone
  /\ ColumnsOf(workbooks.teams.Cardiovascular) = 1
  /\ ColumnsOf(workbooks.teams.Interventional) = 3
  /\ \E r \in TeamEightRows :
       TeamEightName(r) # <<>> /\ TeamEightCell(r, 2) \in RoleMarkers
  /\ DaysRecorded("8") = {1}
  /\ 3 \in DaysRecorded("94")
-----------------------------------------------------------------------------
(* The worksheet of the Team 8 workbook: the one validate_and_configure     *)
(* selects and the one _read_cardiovascular_data reads.                     *)

\* the sheets a Team 8 workbook may hold; the n-th has one marker, on day n
TeamEightSheetNames == <<<<"O","n"," ","C","a","l","l">>, <<"S","h","e","e","t","1">>, <<"F","e","b"," ","2","0","2","4">>, <<"O","l","d"," ","o","n","-","c","a","l","l">>>>

TeamEightSheetnames ==
  {names \in UNION {[1..n -> {TeamEightSheetNames[i] : i \in DOMAIN TeamEightSheetNames}] :
                      n \in 1..MaxSheets} :
     \A i, j \in DOMAIN names : i # j => names[i] # names[j]}

\* selected_sheets[1]: absent, or a name
TeamEightSelections == {<<>>, <<"M","i","s","s","i","n","g">>} \cup {TeamEightSheetNames[i] : i \in DOMAIN TeamEightSheetNames}

\* the cells of a sheet of the Team 8 workbook
TeamEightSheet(sheet_name) ==
  LET n == CHOOSE i \in DOMAIN TeamEightSheetNames : TeamEightSheetNames[i] = sheet_name
      team == CardiologyTeams.Cardiovascular
  IN (<<team.data_rows[1], 2>> :> <<"G","S">>)
       @@ (<<team.data_rows[1], col_letter_to_index(team.first_col) + n - 1>> :> <<"X">>)

\* validate_and_configure: the name of the sheet taken as ws_team8
select_team8(sheetnames, team8_sheet_name) ==
  IF team8_sheet_name # <<>> /\ IsSheet(sheetnames, team8_sheet_name)
  THEN team8_sheet_name
  ELSE sheetnames[1]

\* 'on' in sheet_name.lower() and 'call' in sheet_name.lower()
OnCallName(sheet_name) ==
  Contains(Lower(sheet_name), <<"o","n">>) /\ Contains(Lower(sheet_name), <<"c","a","l","l">>)

\* _read_cardiovascular_data: the name of the sheet it reads, the first
\* on-call sheet of the workbook or else the active sheet
on_call_sheet(sheetnames, active) ==
  FirstOr(SelectSeq(sheetnames, OnCallName), <<sheetnames[active]>>)

InitTeamEight ==
  /\ \E sheetnames \in TeamEightSheetnames, selection \in TeamEightSelections :
       \E active \in DOMAIN sheetnames :
         workbooks = [dept |-> "Cardiology", teams |-> CardiologyTeams,
                      sheetnames |-> sheetnames, active |-> active,
                      selected |-> selection,
                      ws_team8 |-> <<>>, sheet_read |-> <<>>,
                      cardiovascular_data |-> <<>>,
                      interventional_data |-> <<>>,
                      cardiology_data |-> <<>>]
  /\ run = [dept |-> "Cardiology", scenario |-> "team8", year |-> 2024, month |-> 2,
            day |-> 0, pos |-> 0, phase |-> "configure"]
  /\ expected_entries = <<>>
  /\ unknown_names = {}
  /\ unknown_initials = {}
  /\ output_data = <<>>
  /\ call = NoCall
  /\ log = <<>>
  /\ date = NoDate
  /\ dow = 0
  /\ weekday_flag = FALSE

\* validate_and_configure, for the Team 8 file
SelectTeamEight ==
  /\ run.dept = "Cardiology"
  /\ run.phase = "configure"
  /\ workbooks' = [workbooks EXCEPT
                     !.ws_team8 = select_team8(workbooks.sheetnames, workbooks.selected)]
  /\ run' = [run EXCEPT !.phase = "extract"]
  /\ UNCHANGED <<expected_entries, unknown_names, unknown_initials, output_data,
                 call, log, calendarVars>>

\* the result of the reader kept with the name of the sheet it read, and
\* _create_output_data at its first block
KeepTeamEight(sheet_name, read) ==
  /\ workbooks' = [workbooks EXCEPT !.sheet_read = sheet_name,
                                    !.cardiovascular_data = read.days]
  /\ unknown_names' = read.unknown_names
  /\ unknown_initials' = read.unknown_initials
  /\ run' = StartRun("Cardiology", run.scenario, run.year, run.month,
                     [workbooks EXCEPT !.cardiovascular_data = read.days])

ReadSheet(sheet_name) ==
  KeepTeamEight(sheet_name,
                read_cardiovascular_data(TeamEightSheet(sheet_name),
                                         workbooks.teams.Cardiovascular,
                                         run.month, run.year, unknown_names, unknown_initials))

\* extract_schedule_data: _read_cardiovascular_data(workbooks['team8'], ...)
ExtractTeamEight ==
  /\ run.dept = "Cardiology"
  /\ run.phase = "extract"
  /\ ReadSheet(on_call_sheet(workbooks.sheetnames, workbooks.active))
  /\ UNCHANGED <<expected_entries, output_data, call, log, calendarVars>>

NextTeamEight ==
  \/ SelectTeamEight
  \/ ExtractTeamEight
  \/ Cardiovascular

SpecTeamEight == InitTeamEight /\ [][NextTeamEight]_vars

\* the operator selected a sheet of the Team 8 workbook
SelectedExists ==
  workbooks.selected # <<>> /\ IsSheet(workbooks.sheetnames, workbooks.selected)

\* the day on which the sheet of the given name has its marker
MarkedDay(sheet_name) ==
  CHOOSE i \in DOMAIN TeamEightSheetNames : TeamEightSheetNames[i] = sheet_name

(* C26 as stated: when the operator selected a sheet of the Team 8          *)
(* workbook, validate_and_configure takes that sheet as the one in use, and *)
(* the extraction reads the Team 8 markers from it: the records of Team 8   *)
(* are those of the selected sheet.                                         *)
C26_SelectedSheetIsRead ==
  (run.dept = "Cardiology" /\ SelectedExists) =>
    /\ run.phase # "configure" => workbooks.ws_team8 = workbooks.selected
    /\ run.phase \in {"run", "done"} => workbooks.sheet_read = workbooks.selected
    /\ run.phase = "done" => DaysRecorded("8") = {MarkedDay(workbooks.selected)}

\* a run has ended for which the operator selected the second sheet of the
\* workbook: validate_and_configure took it, and Team 8 has its records
C26_Witness ==
  /\ CardiologyDone
  /\ Len(workbooks.sheetnames) = 2
  /\ workbooks.selected = workbooks.sheetnames[2]
  /\ workbooks.ws_team8 = workbooks.selected
  /\ Len(output_data) = 2
-----------------------------------------------------------------------------
(* Conversion runs in succession, as main makes them: a department config   *)
(* with its tracker is constructed, then the extraction runs.               *)

MaxRuns == 2

\* the tracker of the previous run kept for the next one
DebugTrackerKept(previous) == previous

\* DebugTracker.__init__: empty sets and an empty list, whatever the
\* tracker of the previous run holds
DebugTracker(previous) ==
  [expected_entries |-> <<>>, unknown_names |-> {}, unknown_initials |-> {}]

\* get_warnings_summary: the two sets and the missing entries
get_warnings_summary ==
  [unknown_names |-> unknown_names, unknown_initials |-> unknown_initials,
   missing_entries |-> get_missing_entries(expected_entries)]

\* what a run leaves: the records, the warnings and the number of expected
\* entries main displays
RunResult ==
  [output_data |-> output_data, warnings |-> get_warnings_summary,
   expected_count |-> Len(expected_entries), raised |-> run.phase = "raised"]

Finished == run.phase \in {"done", "raised"}

InitRuns ==
  /\ \/ \E scenario \in Scenarios :
          LET wb == RadiologyWorkbooks(scenario, 2024, 2)
          IN /\ workbooks = wb
             /\ run = StartRun("Radiology", scenario, 2024, 2, wb)
     \/ \E scenario \in SheetScenarios :
          /\ workbooks = CardiologySheets(scenario, 2024, 2)
          /\ run = [dept |-> "Cardiology", scenario |-> scenario, year |-> 2024,
                    month |-> 2, day |-> 0, pos |-> 0, phase |-> "team8"]
  /\ expected_entries = <<>>
  /\ unknown_names = {}
  /\ unknown_initials = {}
  /\ output_data = <<>>
  /\ call = NoCall
  /\ log = <<>>
  /\ date = NoDate
  /\ dow = 0
  /\ weekday_flag = FALSE

\* the config of the next run with the tracker it constructs
Constructed(tracker) ==
  /\ expected_entries' = tracker.expected_entries
  /\ unknown_names' = tracker.unknown_names
  /\ unknown_initials' = tracker.unknown_initials

\* main once more on the same files, month and year: a new department
\* config, validate_and_configure and the start of extract_schedule_data
Convert ==
  /\ run.dept \in Departments
  /\ Finished
  /\ Len(log) < MaxRuns - 1
  /\ log' = Append(log, RunResult)
  /\ Constructed(DebugTracker([expected_entries |-> expected_entries,
                               unknown_names |-> unknown_names,
                               unknown_initials |-> unknown_initials]))
  /\ output_data' = <<>>
  /\ IF run.dept = "Radiology"
     THEN /\ run' = StartRun("Radiology", run.scenario, run.year, run.month, workbooks)
          /\ UNCHANGED workbooks
     ELSE /\ workbooks' = CardiologySheets(run.scenario, run.year, run.month)
          /\ run' = [run EXCEPT !.day = 0, !.pos = 0, !.phase = "team8"]
  /\ UNCHANGED <<call, calendarVars>>

NextRuns ==
  \/ NextExtract
  \/ Convert

SpecRuns == InitRuns /\ [][NextRuns]_vars

(* C27: every run after the first starts with an empty tracker and an empty *)
(* record list, and a run made again on the same files, month and year ends *)
(* with the same records, the same warnings (unknown names, unknown         *)
(* initials, missing entries) and the same number of expected entries as    *)
(* the run before it.                                                       *)
C27_RunsAreIndependent ==
  /\ []((Finished /\ log # <<>>) => RunResult = log[Len(log)])
  /\ [](\A i \in DOMAIN log : log[i] = log[1])
  /\ [][log' # log => /\ expected_entries' = <<>>
                      /\ unknown_names' = {}
                      /\ unknown_initials' = {}
                      /\ output_data' = <<>>]_vars

\* the second run over the mixed Cardiology worksheets has ended as the
\* first did, with records, unknown names and missing entries
C27_Witness ==
  /\ CardiologyDone
  /\ run.scenario = "mixed"
  /\ Len(log) = 1
  /\ RunResult = log[1]
  /\ output_data # <<>>
  /\ unknown_names # {}
  /\ get_missing_entries(expected_entries) # <<>>
-----------------------------------------------------------------------------
(* The end date of the records.                                             *)

StartsEarlierThanItEnds(record) == TimeOfDay(record.STARTTIME) < TimeOfDay(record.ENDTIME)

(* C28 as stated: every record whose start time is earlier in the day than  *)
(* its end time ends on the date it starts on, and every other record ends  *)
(* on the following date.                                                   *)
C28_DayBlocksEndSameDay ==
  run.dept \in Departments =>
    \A i \in DOMAIN output_data :
      toordinal(DateOf(output_data[i].ENDDATE))
        = toordinal(DateOf(output_data[i].STARTDATE))
            + (IF StartsEarlierThanItEnds(output_data[i]) THEN 0 ELSE 1)

\* a Cardiology run has emitted the consultant record of a week-day, from
\* 700 to 1600
C28_Witness ==
  /\ run.dept = "Cardiology"
  /\ \E i \in DOMAIN output_data :
       /\ output_data[i].TEAM = "123"
       /\ output_data[i].NOTES = "2nd Day Call"
       /\ output_data[i].STARTDATE = <<"0","2","/","0","1","/","2","0","2","4">>
       /\ output_data[i].STARTTIME = "700"
       /\ output_data[i].ENDTIME = "1600"
-----------------------------------------------------------------------------
(* From the initials or the name in a cell to the employee of the record,   *)
(* on the fully populated grids, whose cells hold initials and names of     *)
(* employees of the department only.                                        *)

DepartmentOf(username) ==
  EMPLOYEE_MAP[CHOOSE i \in Employees : EMPLOYEE_MAP[i].id = username].department

RecordDay(record) == DateOf(record.STARTDATE).day

\* the employee whose initials or name the fully populated Radiology grids
\* hold for the block of a record
RadiologyCellEmployee(record) ==
  LET team == RadiologyTeams[TeamRank(record.TEAM)]
      d == RecordDay(record)
  IN IF StartsEarlierThanItEnds(record)
     THEN StaffOf(d + col_letter_to_index(
                        team.work_cols[IF record.STARTTIME = "1100" THEN 2 ELSE 1]))
     ELSE StaffOf(MarkedRow(team.oncall_rows, d))

\* the employee whose initials the fully populated Attending sheet holds in
\* the Team 94 row for the day of a record
InterventionalCellEmployee(record) ==
  CardiologyPeople[(RecordDay(record) % Cardinality(RowsOf(CardiologyTeams.Cardiology.consultant_rows))) + 1]

(* C29 as stated: in a run over grids whose cells hold the initials (in the *)
(* Radiology on-call grid the full names) of employees of the department    *)
(* processed, every record names an employee of that department, and the    *)
(* record of a block names the employee whose initials or name the cell of  *)
(* the block holds.                                                         *)
C29_InitialsRoundTrip ==
  (run.dept \in Departments /\ run.scenario = "full") =>
    \A i \in DOMAIN output_data :
      /\ DepartmentOf(output_data[i].EMPLOYEE) = run.dept
      /\ run.dept = "Radiology" =>
           output_data[i].EMPLOYEE = RadiologyCellEmployee(output_data[i]).id
      /\ output_data[i].TEAM = "94" =>
           output_data[i].EMPLOYEE = InterventionalCellEmployee(output_data[i]).id

\* a Radiology run over the fully populated grids has emitted a record for
\* a work block whose cell holds the initials 'AS' of a Radiology employee
C29_Witness ==
  /\ run.dept = "Radiology"
  /\ run.scenario = "full"
  /\ \E i \in DOMAIN output_data :
       /\ StartsEarlierThanItEnds(output_data[i])
       /\ RadiologyCellEmployee(output_data[i]).emp_initials = <<"A","S">>
       /\ RadiologyCellEmployee(output_data[i]).department = "Radiology"
-----------------------------------------------------------------------------
(* _get_employee_from_oncall_schedule on its own: a range of three rows of  *)
(* the on-call grid, each with a name or none and a cell for the day.       *)

\* the range of team IRA without its last row, and a range over the header
\* row 23
OncallGridRanges == {<<24, 26>>, <<22, 24>>}

OncallNames == {<<>>, <<"D","r","."," ","M","o","n","i","c","a"," ","B","e","l","l","a">>, <<"D","r","."," ","T","a","r","z","a","n"," ","A","l","i">>, <<"D","r","."," ","N","o","b","o","d","y">>}

OncallMarks == {<<>>, <<"X">>, <<"V">>}

OncallGridDays == {1, 2}

\* the grid: the names in column 1, the cells of the day in its column and
\* an 'X' in every row in the column of the other day
OncallGrid(rng, day, names, marks) ==
  Filled([pos \in (rng[1]..rng[2]) \X {1, 3 + day, 3 + (3 - day)} |->
            IF pos[2] = 1 THEN names[pos[1] - rng[1] + 1]
            ELSE IF pos[2] = 3 + day THEN marks[pos[1] - rng[1] + 1]
            ELSE <<"X">>])

InitOncall ==
  /\ \E rng \in OncallGridRanges, day \in OncallGridDays,
        names \in [1..3 -> OncallNames], marks \in [1..3 -> OncallMarks] :
       workbooks = [dept |-> "Radiology", work_sheet |-> <<>>,
                    oncall_sheet |-> OncallGrid(rng, day, names, marks),
                    oncall_rows |-> rng, day |-> day]
  /\ expected_entries = <<>>
  /\ unknown_names = {}
  /\ unknown_initials = {}
  /\ output_data = <<>>
  /\ run = NoRun
  /\ call = NoCall
  /\ log = <<>>
  /\ date = NoDate
  /\ dow = 0
  /\ weekday_flag = FALSE

\* what the lookup returned and the names it left in the tracker
Looked(found) ==
  /\ call' = [op |-> "oncall", ret |-> found.ret]
  /\ unknown_names' = found.unknown_names

\* self._get_employee_from_oncall_schedule(ws_oncall, day, row_start, row_end)
LookupOncall ==
  /\ call = NoCall
  /\ Looked(get_employee_from_oncall_schedule(workbooks.oncall_sheet, workbooks.day,
                                              workbooks.oncall_rows[1],
                                              workbooks.oncall_rows[2], unknown_names))
  /\ UNCHANGED <<expected_entries, unknown_initials, output_data, workbooks, run, log,
                 calendarVars>>

SpecOncall == InitOncall /\ [][LookupOncall]_vars

OncallName(row) == Cell(workbooks.oncall_sheet, row, 1)

\* the rows of the range that count and have an 'X' in the day's column
OncallMarkedRows ==
  {r \in workbooks.oncall_rows[1]..workbooks.oncall_rows[2] :
     /\ r \notin {23, 29}
     /\ OncallName(r) # <<>>
     /\ Cell(workbooks.oncall_sheet, r, 3 + workbooks.day) = <<"X">>}

FirstMarkedRow == CHOOSE r \in OncallMarkedRows : \A q \in OncallMarkedRows : r <= q

\* the initials of the directory employee of the given full name
InitialsOfName(name) ==
  IF \E i \in Employees : EMPLOYEE_MAP[i].emp_name = name
  THEN EMPLOYEE_MAP[CHOOSE i \in Employees : EMPLOYEE_MAP[i].emp_name = name].emp_initials
  ELSE <<>>

(* C30: the on-call lookup is decided by the first row of the range, top    *)
(* down, that is not row 23 or 29, has a name and has 'X' in column         *)
(* 3 + day: with the name of a directory employee it returns that employee  *)
(* and records nothing; with another name it returns nothing and records    *)
(* that name as unknown, whatever the rows below hold; with no such row it  *)
(* returns nothing and records nothing.                                     *)
C30_FirstMarkedRowDecides ==
  call.op = "oncall" =>
    IF OncallMarkedRows = {} THEN call.ret = <<>> /\ unknown_names = {}
    ELSE IF InitialsOfName(OncallName(FirstMarkedRow)) # <<>>
    THEN call.ret = InitialsOfName(OncallName(FirstMarkedRow)) /\ unknown_names = {}
    ELSE call.ret = <<>> /\ unknown_names = {OncallName(FirstMarkedRow)}

\* the first marked row has an unknown name and a row below it is marked
\* with the name of an employee: nothing is returned, the name is recorded
C30_Witness ==
  /\ call.op = "oncall"
  /\ Cardinality(OncallMarkedRows) >= 2
  /\ OncallName(FirstMarkedRow) = <<"D","r","."," ","N","o","b","o","d","y">>
  /\ \E r \in OncallMarkedRows : InitialsOfName(OncallName(r)) = <<"M","B">>
  /\ call.ret = <<>>
  /\ unknown_names = {<<"D","r","."," ","N","o","b","o","d","y">>}
=============================================================================
